---------------------------- MODULE Spec2Model ----------------------------
(***************************************************************************)
(* Rib and spar builder scripts for a wing solid (Fusion 360 scripts).     *)
(*                                                                         *)
(* The model follows one invocation of a script's run(context):            *)
(*   scripts/CreateWingRibs/CreateWingRibs.py  run -> create_rib ->        *)
(*       create_rib_body / create_rib_vertical_post ->                     *)
(*       boundary_fill_between_planes -> cell_between_planes               *)
(*   scripts/CreateSpars/CreateSpars.py        run -> create_spar_from_line*)
(*                                                                         *)
(* The host kernel (construction planes, boundary fill, shell, extrude,    *)
(* combine) is the environment: what it returns is chosen with \E from     *)
(* small sets.  Lengths are integers in a model unit chosen so that every  *)
(* half-width and every bounding-box centroid is a whole number.           *)
(***************************************************************************)
EXTENDS Integers, Sequences, FiniteSets, TLC

(***************************************************************************)
(* Bounds of the model.                                                    *)
(***************************************************************************)
MaxStations == 2      \* longest RIB_STATIONS_CM list / most lines in the spars sketch
MaxPosts    == 1      \* longest RIB_POST_ROOT_LOCS_CM list
MaxCells    == 4      \* most cells the kernel returns for one partition
MaxBodies   == 2      \* most bodies the kernel puts in one boundary-fill feature
MaxFaces    == 3      \* most faces the kernel reports for a rib body
SelMaxCoord == 2      \* largest plane coordinate when cell selection is checked on its own
FunMaxCoord == 6      \* largest coordinate given to a library function called on its own
MidMaxStep  == 3      \* colinear points are taken at steps 0..MidMaxStep along a line
MaxAxisLen  == 3      \* longest axis-aligned direction given to project_coord

(***************************************************************************)
(* Small arithmetic helpers.                                               *)
(***************************************************************************)
Min2(a, b) == IF a <= b THEN a ELSE b

Max2(a, b) == IF a >= b THEN a ELSE b

\* math.sqrt on the perfect squares the model's directions produce
Sqrt(n) == CHOOSE r \in 0..n : r * r = n

\* Python's true division, on operands where it is exact
TrueDiv(a, b) == IF a >= 0 THEN a \div b ELSE 0 - ((0 - a) \div b)

\* "{}".format(n) for the small naturals the scripts format
Digit(d) == <<"0", "1", "2", "3", "4", "5", "6", "7", "8", "9">>[d + 1]

RECURSIVE Dec(_)
Dec(n) == IF n < 10 THEN Digit(n) ELSE Dec(n \div 10) \o Digit(n % 10)

(***************************************************************************)
(* util/orientation.py                                                     *)
(***************************************************************************)
VERTICAL_UP_DIRECTION == <<0, 0, 1>>

SPANWISE_DIRECTION == <<0, 1, 0>>

CHORDWISE_DIRECTION == <<1, 0, 0>>

chordwise_coord(point) == point[1]

\* point(chordwise, spanwise, vertical)
point(chordwise, spanwise, vertical) == <<chordwise, spanwise, vertical>>

(***************************************************************************)
(* f360lib/utils.py : pure geometry                                        *)
(***************************************************************************)
VecAdd(u, v) == [i \in 1..3 |-> u[i] + v[i]]

VecScale(u, s) == [i \in 1..3 |-> u[i] * s]

\* the second and third components of the direction exchanged
project_coord_swapped(pt, direction) ==
    pt[1] * direction[1] + pt[2] * direction[3] + pt[3] * direction[2]

\* a * x + b * y + c * z / math.sqrt(x * x + y * y + z * z)
project_coord(pt, direction) ==
    pt[1] * direction[1] + pt[2] * direction[2]
      + TrueDiv(pt[3] * direction[3],
                Sqrt(direction[1] * direction[1] + direction[2] * direction[2]
                       + direction[3] * direction[3]))

\* min_point + 0.5 * (max_point - min_point)
centroid_of_bounding_box(bb) ==
    [i \in 1..3 |-> bb.minPoint[i] + TrueDiv(bb.maxPoint[i] - bb.minPoint[i], 2)]

\* the point lies strictly between the planes
is_point_between_planes_open(pt, plane1, plane2) ==
    LET normal == plane1.normal
        plane1_coord == project_coord(plane1.origin, normal)
        point_coord  == project_coord(pt, normal)
        plane2_coord == project_coord(plane2.origin, normal)
    IN  Min2(plane1_coord, plane2_coord) < point_coord
          /\ point_coord < Max2(plane1_coord, plane2_coord)

\* min(plane1_coord, plane2_coord) <= point_coord <= max(plane1_coord, plane2_coord)
\* (the two planes of a partition are offsets of one reference plane, so the
\* assertion that their normals are equal passes)
is_point_between_planes(pt, plane1, plane2) ==
    LET normal == plane1.normal
        plane1_coord == project_coord(plane1.origin, normal)
        point_coord  == project_coord(pt, normal)
        plane2_coord == project_coord(plane2.origin, normal)
    IN  Min2(plane1_coord, plane2_coord) <= point_coord
          /\ point_coord <= Max2(plane1_coord, plane2_coord)

\* the in_betweens list of cell_between_planes
in_betweens(cells, plane1, plane2) ==
    [i \in 1..Len(cells) |->
        is_point_between_planes(centroid_of_bounding_box(cells[i].bb), plane1, plane2)]

\* the first cell in between, however many there are
cell_between_planes_first(cells, plane1, plane2) ==
    LET ib == in_betweens(cells, plane1, plane2)
        hits == {i \in 1..Len(cells) : ib[i]}
    IN  IF hits = {} THEN 0
        ELSE CHOOSE i \in hits : \A h \in hits : i <= h

\* index (1-based) of the cell returned, 0 when the assertion fails
cell_between_planes(cells, plane1, plane2) ==
    LET ib == in_betweens(cells, plane1, plane2)
        hits == {i \in 1..Len(cells) : ib[i]}
    IN  IF Cardinality(hits) # 1 THEN 0
        ELSE CHOOSE i \in hits : \A h \in hits : i <= h

\* the fraction of the distance alone, not measured from from_loc
relative_location_from_origin(from_loc, to_loc, frac) ==
    TrueDiv((to_loc - from_loc) * frac[1], frac[2])

\* from_loc + (to_loc - from_loc) * frac, frac a rational <<num, den>>
relative_location(from_loc, to_loc, frac) ==
    LET full_dist == to_loc - from_loc
        dist == TrueDiv(full_dist * frac[1], frac[2])
    IN  from_loc + dist


(***************************************************************************)
(* Host kernel geometry.                                                   *)
(***************************************************************************)
Dot(u, v) == u[1] * v[1] + u[2] * v[2] + u[3] * v[3]

Cross(u, v) == <<u[2] * v[3] - u[3] * v[2],
                 u[3] * v[1] - u[1] * v[3],
                 u[1] * v[2] - u[2] * v[1]>>

\* the offset taken from the origin of the document instead of the reference plane
PlaneByOffset_from_origin(ref, offset) ==
    [origin |-> VecScale(ref.normal, offset),
     normal |-> ref.normal,
     visible |-> TRUE]

\* ConstructionPlaneInput.setByOffset(reference, offset) followed by planes.add
PlaneByOffset(ref, offset) ==
    [origin |-> VecAdd(ref.origin, VecScale(ref.normal, offset)),
     normal |-> ref.normal,
     visible |-> TRUE]

\* root_sketch.referencePlane : the spanwise station 0 of the wing
RootPlane == [origin |-> <<0, 0, 0>>, normal |-> SPANWISE_DIRECTION, visible |-> TRUE]

\* comp.yZConstructionPlane
vert_spanwise_plane == [origin |-> <<0, 0, 0>>, normal |-> CHORDWISE_DIRECTION, visible |-> TRUE]

\* Plane.isCoPlanarTo : parallel normals and the origin of one on the other
isCoPlanarTo(face_plane, plane) ==
    /\ Cross(face_plane.normal, plane.normal) = <<0, 0, 0>>
    /\ Dot(VecAdd(face_plane.origin, VecScale(plane.origin, 0 - 1)), plane.normal) = 0

\* index of the first planar face of the body coplanar with the plane, 0 for None
find_coplanar_face_any(faces, plane) ==
    LET hits == {i \in 1..Len(faces) : faces[i].planar}
    IN  IF hits = {} THEN 0 ELSE CHOOSE i \in hits : \A h \in hits : i <= h

find_coplanar_face(faces, plane) ==
    LET hits == {i \in 1..Len(faces) : faces[i].planar /\ isCoPlanarTo(faces[i], plane)}
    IN  IF hits = {} THEN 0 ELSE CHOOSE i \in hits : \A h \in hits : i <= h

\* a partition cell whose bounding box is centred at coordinate c along the unit normal n
CellAt(n, c) ==
    [bb |-> [minPoint |-> [i \in 1..3 |-> c * n[i] - 1],
             maxPoint |-> [i \in 1..3 |-> c * n[i] + 1]]]

\* all sequences over S of length lo..hi
SeqsOf(S, lo, hi) == UNION {[1..n -> S] : n \in lo..hi}

(***************************************************************************)
(* State.                                                                  *)
(***************************************************************************)
VARIABLES
    script,      \* which script's run(context) is invoked
    settings,    \* the settings module loaded at import
    doc,         \* the host document before the run: named entities present
    pc,          \* position of the single thread of control
    err,         \* the exception raised ("none" when none was)
    result,      \* how run(context) ended: "running", "returned", "raised"
    out,         \* what the top-level handler wrote: log lines and message boxes
    component,   \* name of the component created by the run ("" before)
    planes,      \* component.constructionPlanes, in creation order
    bodies,      \* bodies created in the component, in creation order
    tx,          \* the boundary-fill transaction of the current partition
    k,           \* 1-based index of the station (line) being built
    j,           \* 1-based index of the post being built
    cur,         \* locals of create_rib / create_spar_from_line
    ops,         \* kernel operations issued, per station
    calls,       \* stations for which the builder was invoked, in order
    fn,          \* a library function called on its own: name, arguments, value returned
    wing         \* the target wing body of the document

vars == <<script, settings, doc, pc, err, result, out, component, planes,
          bodies, tx, k, j, cur, ops, calls, fn, wing>>

(***************************************************************************)
(* Inputs.                                                                 *)
(***************************************************************************)
\* station distances and the rib thickness, in model units
StationValues == {0, 2}

\* the two values of the post location flag (settings/test2.py, settings/tailplaneproto.py)
PostLocTypes == {"absolute", "proportional"}

\* declared post positions at the root: 2, 4, ... from the leading edge
PostRootLocs == {[i \in 1..n |-> 2 * i] : n \in 0..MaxPosts}

\* chordwise extent (min x, max x) of the wing body's bounding box
WingChord == <<2, 10>>

\* chord lost per unit of span: a straight wing and a tapered one
Tapers == {0, 2}

\* distance the leading and trailing edges move back per unit of span: an unswept
\* wing and a swept one, whose root chord is shorter than the wing's bounding box
Sweeps == {0, 2}

\* the outermost station, where a swept wing reaches the end of the bounding box
TipStation == CHOOSE m \in StationValues : \A st \in StationValues : st <= m

\* vertical extent of the wing section (bottom is at 0)
Heights == {2, 4, 6}

\* spanwise extents (min, max) of the wing along a spar line
Spans == {<<0, 2>>, <<0, 6>>}

\* the documents a rib run may start from: the named entities present, and the
\* shape of the wing: straight with any of the heights, or tapered or swept
\* with the middle height
RibDocuments ==
    {d \in [rootSketch : BOOLEAN, wingBody : BOOLEAN, taper : Tapers, sweep : Sweeps,
             height : Heights, sparsSketch : {TRUE}, lines : {0}, span : {<<0, 6>>}] :
        \/ d.taper = 0 /\ d.sweep = 0
        \/ d.height = 4 /\ (d.taper = 0 \/ d.sweep = 0)}

\* the documents a spar run may start from: the spars sketch holds `lines` lines
SparDocuments ==
    [rootSketch : {TRUE}, wingBody : BOOLEAN, taper : {0}, sweep : {0}, height : {4},
     sparsSketch : BOOLEAN, lines : 0..MaxStations, span : Spans]

\* chordwise extent of the bounding box of a rib cut at a station
RibChord(station) ==
    <<WingChord[1] + doc.sweep * station,
      WingChord[2] - doc.taper * station - doc.sweep * (TipStation - station)>>

\* diameters of the perforations of a spar
SparCircleDiameters == {2, 4}

\* distances between the centres of two perforations
SparCircleSpacings == {2, 3}

RibSettings ==
    [RIB_STATIONS_CM : SeqsOf(StationValues, 0, MaxStations),
     RIB_THICKNESS_CM : {2},
     RIB_INSET_CM : {1},
     RIB_POST_LOC_TYPE : PostLocTypes,
     RIB_POST_ROOT_LOCS_CM : PostRootLocs,
     SPARS_COMPONENT_NAME : {"spars"},
     RIB_COMPONENT_NAME : {"ribs"},
     RIB_POST_WIDTH_CM : {2},
     RIB_POST_TRIANGLE_LEN_CM : {2},
     SPAR_THICKNESS_CM : {2},
     SPAR_CIRCLE_DIAMETER_CM : SparCircleDiameters,
     SPAR_CIRCLE_SPACING_CM : SparCircleSpacings]

NoTx ==
    [state |-> "none", caller |-> "none", p1 |-> 0, p2 |-> 0, cells |-> <<>>,
     cell_count |-> 0, between |-> 0, selected |-> 0, kept |-> <<>>, nBodies |-> 0,
     added |-> FALSE, cancelCalls |-> 0, cancelRaised |-> FALSE, returned |-> 0]

NoCur ==
    [rib |-> 0, plane1 |-> 0, plane2 |-> 0, locs |-> <<>>, post |-> 0,
     open |-> {}, extruded |-> <<>>, top |-> 0, bottom |-> 0, apex |-> <<>>,
     spar |-> 0, min_spanwise |-> 0, max_spanwise |-> 0, loc |-> 0, circle_locs |-> <<>>]

NoCall == [name |-> "none", args |-> <<>>, ret |-> <<>>]

\* settings.WING_BODY in the document when the run starts
WingBody == [name |-> "skin", present |-> doc.wingBody, holes |-> <<>>]

Idle ==
    /\ fn = NoCall
    /\ wing = WingBody
    /\ pc = "start"
    /\ err = "none"
    /\ result = "running"
    /\ out = [failed |-> 0, boxes |-> <<>>]
    /\ component = ""
    /\ planes = <<>>
    /\ bodies = <<>>
    /\ tx = NoTx
    /\ k = 0
    /\ j = 0
    /\ cur = NoCur
    /\ calls = <<>>

\* the station list the rib run iterates
Stations == settings.RIB_STATIONS_CM

\* number of members the run is asked to build
Members == IF script = "CreateWingRibs" THEN Len(Stations) ELSE doc.lines

Init ==
    /\ \/ /\ script = "CreateWingRibs"
          /\ settings \in {st \in RibSettings : st.SPAR_CIRCLE_DIAMETER_CM = 2 /\ st.SPAR_CIRCLE_SPACING_CM = 2}
          /\ doc \in RibDocuments
          \* sections tall enough for gussets are run over at most one station
          /\ doc.height > 2 * settings.RIB_POST_TRIANGLE_LEN_CM
                => Len(settings.RIB_STATIONS_CM) <= 1
       \/ /\ script = "CreateSpars"
          /\ settings \in {st \in RibSettings :
                              /\ st.RIB_STATIONS_CM = <<>>
                              /\ st.RIB_POST_ROOT_LOCS_CM = <<>>
                              /\ st.RIB_POST_LOC_TYPE = "absolute"}
          /\ doc \in SparDocuments
    /\ ops = [i \in 1..Members |-> 0]
    /\ Idle

KernelOp == ops' = [ops EXCEPT ![k] = @ + 1]

Raise(e) == err' = e

inputs == <<script, settings, doc, fn>>

env == <<inputs, wing>>

(***************************************************************************)
(* CreateWingRibs.run : locating the named entities                        *)
(***************************************************************************)
\* lines 28-37 : root.sketches.itemByName(settings.RIB_ROOT_SKETCH)
Run_LocateSketch ==
    /\ script = "CreateWingRibs"
    /\ pc = "start"
    /\ IF doc.rootSketch
         THEN pc' = "locate_body" /\ UNCHANGED err
         ELSE pc' = "handler" /\ Raise("ValueError: Root sketch not found")
    /\ UNCHANGED <<env, result, out, component, planes, bodies, tx, k, j, cur, ops, calls>>

\* lines 40-42, with the component created before the body is looked up
Run_LocateBody_late ==
    /\ pc = "locate_body"
    /\ component' = settings.RIB_COMPONENT_NAME
    /\ IF doc.wingBody
         THEN pc' = "chord" /\ UNCHANGED err
         ELSE pc' = "handler" /\ err' = "ValueError: Wing body not found"
    /\ UNCHANGED <<env, result, out, planes, bodies, tx, k, j, cur, ops, calls>>

\* lines 40-42 : root.bRepBodies.itemByName(settings.WING_BODY)
Run_LocateBody ==
    /\ pc = "locate_body"
    /\ IF doc.wingBody
         THEN pc' = "chord" /\ UNCHANGED err
         ELSE pc' = "handler" /\ Raise("ValueError: Wing body not found")
    /\ UNCHANGED <<env, result, out, component, planes, bodies, tx, k, j, cur, ops, calls>>

\* line 47 : chord_length of the wing body
chord_length == chordwise_coord(<<WingChord[2], 0, 0>>) - chordwise_coord(<<WingChord[1], 0, 0>>)

\* line 52 : rib_vertical_fracs, each r / chord_length kept as the rational <<r, chord_length>>
rib_vertical_fracs ==
    [i \in 1..Len(settings.RIB_POST_ROOT_LOCS_CM) |->
        <<settings.RIB_POST_ROOT_LOCS_CM[i], chord_length>>]

\* lines 45-54 : chord extremities and the relative post positions
Run_Chord ==
    /\ pc = "chord"
    /\ IF chord_length = 0 /\ Len(settings.RIB_POST_ROOT_LOCS_CM) > 0
         THEN pc' = "handler" /\ Raise("ZeroDivisionError")
         ELSE pc' = "new_component" /\ UNCHANGED err
    /\ UNCHANGED <<env, result, out, component, planes, bodies, tx, k, j, cur, ops, calls>>

\* lines 57-59 : root.occurrences.addNewComponent, component.name
Run_NewComponent ==
    /\ pc = "new_component"
    /\ component' = settings.RIB_COMPONENT_NAME
    /\ pc' = "rib_loop"
    /\ UNCHANGED <<env, err, result, out, planes, bodies, tx, k, j, cur, ops, calls>>

\* line 63 : "rib_{}".format(rib_id + 1)
rib_name_zero_based(rib_id) == "rib_" \o Dec(rib_id)

rib_name(rib_id) == "rib_" \o Dec(rib_id + 1)

\* lines 62-66 : for rib_id, rib_dist_from_root in enumerate(settings.RIB_STATIONS_CM)
Run_RibLoop ==
    /\ pc = "rib_loop"
    /\ IF k < Len(Stations)
         THEN /\ k' = k + 1
              /\ calls' = Append(calls, k + 1)
              /\ pc' = "rib_planes"
              /\ UNCHANGED result
         ELSE /\ pc' = "done"
              /\ result' = "returned"
              /\ UNCHANGED <<k, calls>>
    /\ j' = 0
    /\ cur' = NoCur
    /\ UNCHANGED <<env, err, out, component, planes, bodies, tx, ops>>

(***************************************************************************)
(* wing.create_rib_body lines 20-30 : two planes, then the boundary fill   *)
(***************************************************************************)
CreateRibBody_Planes ==
    /\ pc = "rib_planes"
    /\ LET dist_from_root == Stations[k]
           plane1 == PlaneByOffset(RootPlane, dist_from_root)
           plane2 == PlaneByOffset(plane1, settings.RIB_THICKNESS_CM)
       IN  /\ planes' = planes \o <<plane1, plane2>>
           /\ cur' = [cur EXCEPT !.plane1 = Len(planes) + 1, !.plane2 = Len(planes) + 2]
           /\ tx' = [NoTx EXCEPT !.caller = "rib", !.p1 = Len(planes) + 1,
                                 !.p2 = Len(planes) + 2]
    /\ pc' = "bf_input"
    /\ ops' = [ops EXCEPT ![k] = @ + 2]
    /\ UNCHANGED <<env, err, result, out, component, bodies, k, j, calls>>

(***************************************************************************)
(* utils.boundary_fill_between_planes                                      *)
(***************************************************************************)
\* coordinates along the normal at which the kernel may centre a cell:
\* before the planes, on the first one, beyond the second
CellCoords(plane1, plane2) ==
    LET c1 == Dot(plane1.origin, plane1.normal)
        c2 == Dot(plane2.origin, plane2.normal)
    IN  {Min2(c1, c2) - 1, Min2(c1, c2), Max2(c1, c2) + 1}

\* coordinate of a point along a unit normal
Along(pt, n) == Dot(pt, n)

\* midpoint of a bounding box
MidPoint(bb) == [i \in 1..3 |-> (bb.minPoint[i] + bb.maxPoint[i]) \div 2]

\* indices of the cells whose centroid lies in the closed interval between the planes
Inside(cells, plane1, plane2) ==
    LET n == plane1.normal
        a == Along(plane1.origin, n)
        b == Along(plane2.origin, n)
    IN  {i \in 1..Len(cells) :
            /\ Min2(a, b) <= Along(MidPoint(cells[i].bb), n)
            /\ Along(MidPoint(cells[i].bb), n) <= Max2(a, b)}

\* the cell lists boundary_fill_input.bRepCells may hold
KernelCells(plane1, plane2) ==
    LET n == plane1.normal
        on == Dot(plane1.origin, n)
    IN  {[i \in 1..cnt |-> CellAt(n, on)] : cnt \in (0..MaxCells) \ {2, 3}}
          \cup {[i \in 1..Len(cs) |-> CellAt(n, cs[i])] :
                   cs \in SeqsOf(CellCoords(plane1, plane2), 2, 3)}

\* lines 141-154 : createInput opens the transaction and computes the cells
BF_CreateInput ==
    /\ pc = "bf_input"
    /\ \E cells \in KernelCells(planes[tx.p1], planes[tx.p2]) :
          tx' = [tx EXCEPT !.state = "pending", !.cells = cells,
                           !.cell_count = Len(cells),
                           !.between = Cardinality(Inside(cells, planes[tx.p1],
                                                          planes[tx.p2]))]
    /\ pc' = "bf_select"
    /\ KernelOp
    /\ UNCHANGED <<env, err, result, out, component, planes, bodies, k, j, cur, calls>>

\* line 155 : the accepted cell counts
cell_count_ok_upto3(cell_count) == cell_count \in {1, 2, 3}

cell_count_ok(cell_count) == cell_count \in {2, 3}

\* lines 155-159 : choose the cell to keep.  Once the choice is made (or has
\* failed) the cell list is not read again: the transaction keeps the number of
\* cells, the number of them between the planes, and the selected cell.
BF_Select ==
    /\ pc = "bf_select"
    /\ LET cell_count == tx.cell_count
           cell == cell_between_planes(tx.cells, planes[tx.p1], planes[tx.p2])
       IN  IF cell_count_ok(cell_count)
             THEN IF cell # 0
                    THEN /\ tx' = [tx EXCEPT !.selected = cell,
                                              !.kept = <<tx.cells[cell]>>,
                                              !.cells = <<>>]
                         /\ pc' = "bf_add"
                         /\ UNCHANGED err
                    ELSE /\ Raise("AssertionError: Expected 1 cell in between planes")
                         /\ pc' = "bf_except"
                         /\ tx' = [tx EXCEPT !.cells = <<>>]
             ELSE /\ Raise("Exception: Expected exactly 2 or 3 cells")
                  /\ pc' = "bf_except"
                  /\ tx' = [tx EXCEPT !.cells = <<>>]
    /\ UNCHANGED <<env, result, out, component, planes, bodies, k, j, cur, ops, calls>>

\* a body as the kernel creates it, before the script names it
NewBody(n, from, station, at) ==
    [name |-> "Body" \o Dec(n), from |-> from, station |-> station, at |-> at,
     shells |-> <<>>, holes |-> <<>>, trimmed |-> FALSE]

\* BoundaryFillFeatureInput.isRemoveTools, which the function leaves at its default
isRemoveTools == FALSE

\* a tool body after the feature that used it
AfterUse(tool, kept) == IF kept THEN tool ELSE [tool EXCEPT !.present = FALSE]

\* line 162 : boundary_fills.add commits the selected cell; the wing body is the
\* tool of a rib or spar partition, the rib body that of a post partition
BF_Add ==
    /\ pc = "bf_add"
    /\ \/ \E nb \in 0..MaxBodies :
            /\ wing' = IF tx.caller \in {"rib", "spar"}
                         THEN AfterUse(wing, ~isRemoveTools) ELSE wing
            /\ bodies' = bodies \o
                  [i \in 1..nb |->
                      NewBody(Len(bodies) + i, tx.caller, k,
                              Dot(planes[tx.p1].origin, planes[tx.p1].normal))]
            /\ tx' = [tx EXCEPT !.state = "committed", !.added = TRUE, !.nBodies = nb,
                                !.kept = <<>>]
            /\ pc' = "bf_check"
            /\ UNCHANGED err
       \/ /\ Raise("RuntimeError: boundary fill failed")
          /\ pc' = "bf_except"
          /\ UNCHANGED <<bodies, tx, wing>>
    /\ KernelOp
    /\ UNCHANGED <<inputs, result, out, component, planes, k, j, cur, calls>>

\* where boundary_fill_between_planes returns to
ReturnPc(caller) ==
    CASE caller = "rib" -> "rib_filled"
      [] caller = "post" -> "post_filled"
      [] caller = "spar" -> "spar_filled"

\* line 163 : the body count the assertion accepts
single_body_atleast(count) == count >= 1

single_body(count) == count = 1

\* lines 163-165 : exactly one body expected, which is returned
BF_Check ==
    /\ pc = "bf_check"
    /\ IF single_body(tx.nBodies)
         THEN /\ tx' = [tx EXCEPT !.returned = Len(bodies) - tx.nBodies + 1]
              /\ pc' = ReturnPc(tx.caller)
              /\ UNCHANGED err
         ELSE /\ Raise("AssertionError: expected a single rib body to be created")
              /\ pc' = "bf_except"
              /\ UNCHANGED tx
    /\ UNCHANGED <<env, result, out, component, planes, bodies, k, j, cur, ops, calls>>

\* lines 166-173 : cancel the transaction (a failure of cancel is swallowed), re-raise
\* the error that leaves the except block when the last error raised is kept
reraised_last(original, cancel_error) ==
    IF cancel_error = "none" THEN original ELSE cancel_error

\* lines 169-173 : "except Exception as ignored: pass", then a bare raise
reraised(original, cancel_error) == original

BF_Except ==
    /\ pc = "bf_except"
    /\ \E cancelled \in BOOLEAN :
          /\ tx' = [tx EXCEPT !.cancelCalls = @ + 1,
                              !.cancelRaised = ~cancelled,
                              !.state = IF cancelled /\ @ = "pending"
                                          THEN "cancelled" ELSE @,
                              !.kept = <<>>]
          /\ err' = reraised(err, IF cancelled THEN "none"
                                               ELSE "RuntimeError: cancel failed")
    /\ pc' = "handler"
    /\ KernelOp
    /\ UNCHANGED <<env, result, out, component, planes, bodies, k, j, cur, calls>>

(***************************************************************************)
(* wing.create_rib                                                         *)
(***************************************************************************)
Hide(ps, a, b) == [ps EXCEPT ![a].visible = FALSE, ![b].visible = FALSE]

\* wing.py lines 33-36 and 137-144 : hide the planes, name the rib, resolve the posts
Rib_Filled ==
    /\ pc = "rib_filled"
    /\ planes' = Hide(planes, cur.plane1, cur.plane2)
    /\ bodies' = [bodies EXCEPT ![tx.returned].name = rib_name(k - 1)]
    /\ LET chord == RibChord(Stations[k])
           start_coord == chordwise_coord(<<chord[1], 0, 0>>)
           end_coord == chordwise_coord(<<chord[2], 0, 0>>)
       IN  cur' = [cur EXCEPT
                        !.rib = tx.returned,
                        !.locs = [i \in 1..Len(rib_vertical_fracs) |->
                                    relative_location(start_coord, end_coord,
                                                      rib_vertical_fracs[i])]]
    /\ tx' = NoTx
    /\ pc' = "post_loop"
    /\ UNCHANGED <<env, err, result, out, component, k, j, ops, calls>>

\* the loop leaves out the last of the posts
more_posts_but_last(i, rib_post_locs) == i + 1 < Len(rib_post_locs)

\* wing.py line 146 : i posts are built, rib_post_locs has a next one
more_posts(i, rib_post_locs) == i < Len(rib_post_locs)

\* wing.py line 146 : for i, rib_post_loc in enumerate(rib_post_locs)
Rib_PostLoop ==
    /\ pc = "post_loop"
    /\ IF more_posts(j, cur.locs)
         THEN j' = j + 1 /\ pc' = "post_planes"
         ELSE j' = j /\ pc' = "find_faces"
    /\ UNCHANGED <<env, err, result, out, component, planes, bodies, tx, k, cur, ops, calls>>

\* wing.py lines 47-59 : two planes centred on the post location
Post_Planes ==
    /\ pc = "post_planes"
    /\ LET rib_post_loc == cur.locs[j]
           p1loc == rib_post_loc - TrueDiv(settings.RIB_POST_WIDTH_CM, 2)
           p2loc == rib_post_loc + TrueDiv(settings.RIB_POST_WIDTH_CM, 2)
           plane1 == PlaneByOffset(vert_spanwise_plane, p1loc)
           plane2 == PlaneByOffset(vert_spanwise_plane, p2loc)
       IN  /\ planes' = planes \o <<plane1, plane2>>
           /\ tx' = [NoTx EXCEPT !.caller = "post", !.p1 = Len(planes) + 1,
                                 !.p2 = Len(planes) + 2]
    /\ pc' = "bf_input"
    /\ ops' = [ops EXCEPT ![k] = @ + 2]
    /\ UNCHANGED <<env, err, result, out, component, bodies, k, j, cur, calls>>

\* wing.py line 149 : '{}_post_{}'.format(rib_name, i + 1)
post_name(rib_id, i) == rib_name(rib_id) \o "_post_" \o Dec(i + 1)

\* the section is also taken as tall enough when it is exactly two sides high
tall_enough_or_equal(top, bottom, tri_side) == top - bottom >= 2 * tri_side

\* wing.py line 79 : only create triangles if the section is tall enough
tall_enough(top, bottom, tri_side) == top - bottom > 2 * tri_side

\* post.boundingBox : between the two post planes chordwise, the two rib planes
\* spanwise, and over the height of the wing section
PostBox(pp1, pp2, rp1, rp2) ==
    [minPoint |-> <<Min2(pp1.origin[1], pp2.origin[1]), Min2(rp1.origin[2], rp2.origin[2]), 0>>,
     maxPoint |-> <<Max2(pp1.origin[1], pp2.origin[1]), Max2(rp1.origin[2], rp2.origin[2]),
                    doc.height>>]

\* wing.py lines 61-79, and 129/149 when no gusset is made
Post_Filled ==
    /\ pc = "post_filled"
    /\ planes' = Hide(planes, tx.p1, tx.p2)
    /\ LET bounding_box == PostBox(planes[tx.p1], planes[tx.p2], planes[cur.plane1],
                                   planes[cur.plane2])
           top == project_coord(bounding_box.maxPoint, VERTICAL_UP_DIRECTION)
           bottom == project_coord(bounding_box.minPoint, VERTICAL_UP_DIRECTION)
       IN  IF tall_enough(top, bottom, settings.RIB_POST_TRIANGLE_LEN_CM)
             THEN /\ pc' = "post_gussets"
                  /\ cur' = [cur EXCEPT !.post = tx.returned, !.extruded = <<>>,
                                         !.top = top, !.bottom = bottom, !.apex = <<>>]
                  /\ UNCHANGED bodies
             ELSE /\ pc' = "post_loop"
                  /\ bodies' = [bodies EXCEPT ![tx.returned].name = post_name(k - 1, j - 1)]
                  /\ UNCHANGED cur
    /\ tx' = NoTx
    /\ KernelOp
    /\ UNCHANGED <<env, err, result, out, component, k, j, calls>>

\* the numbers of bodies the kernel may report for one extrude feature
ExtrudeCounts == {0, 1, 2}

\* wing.py lines 99-110 : extrusion.bodies of a profile extruded as new bodies;
\* item(0) is taken and named, the bodies after it are left as they are
ExtrudedBodies(n, count, name) ==
    [i \in 1..count |->
        IF i = 1
          THEN [NewBody(n + 1, "gusset", k, cur.locs[j]) EXCEPT !.name = name]
          ELSE NewBody(n + i, "extruded", k, cur.locs[j])]

\* wing.py lines 112-127 : the intersection with the wing body, tool bodies kept
Trimmed(extruded) ==
    [i \in 1..Len(extruded) |->
        IF i = 1 THEN [extruded[i] EXCEPT !.trimmed = TRUE] ELSE extruded[i]]

\* the apex of the top triangle two sides below the top
gusset_apex_top_low(top, tri_side) == top - 2 * tri_side

\* wing.py line 80 : vertical=top - tri_side
gusset_apex_top(top, tri_side) == top - tri_side

\* wing.py line 88 : vertical=bottom + tri_side
gusset_apex_bottom(bottom, tri_side) == bottom + tri_side

\* wing.py lines 80-94 : the vertical coordinates of the first point of the top
\* triangle and of the bottom triangle
gusset_apexes ==
    <<gusset_apex_top(cur.top, settings.RIB_POST_TRIANGLE_LEN_CM),
      gusset_apex_bottom(cur.bottom, settings.RIB_POST_TRIANGLE_LEN_CM)>>

\* combine_input.isKeepToolBodies left as the kernel creates the input
isKeepToolBodies_unset == FALSE

\* wing.py lines 118 and 124 : combine_input.isKeepToolBodies = True
isKeepToolBodies == TRUE

\* wing.py lines 80-129 and 149 : two triangles sketched, extruded, trimmed.
\* bodies.item(0) of an extrusion without bodies is None, and naming it raises
Post_Gussets ==
    /\ pc = "post_gussets"
    /\ \E profiles \in 1..2, top_count \in ExtrudeCounts, bottom_count \in ExtrudeCounts :
          LET top_triangle == ExtrudedBodies(Len(bodies), top_count, "top_triangle")
              bottom_triangle == ExtrudedBodies(Len(bodies) + top_count, bottom_count,
                                                "bottom_triangle")
          IN  IF profiles # 2
                THEN /\ Raise("AssertionError: expected 2 triangle profiles")
                     /\ pc' = "handler"
                     /\ cur' = [cur EXCEPT !.apex = gusset_apexes]
                     /\ UNCHANGED <<bodies, ops, wing>>
                ELSE IF top_count = 0
                  THEN /\ Raise("AttributeError: 'NoneType' object has no attribute 'name'")
                       /\ pc' = "handler"
                       /\ cur' = [cur EXCEPT !.extruded = <<top_count>>, !.apex = gusset_apexes]
                       /\ ops' = [ops EXCEPT ![k] = @ + 1]
                       /\ UNCHANGED <<bodies, wing>>
                ELSE IF bottom_count = 0
                  THEN /\ Raise("AttributeError: 'NoneType' object has no attribute 'name'")
                       /\ pc' = "handler"
                       /\ cur' = [cur EXCEPT !.extruded = <<top_count, bottom_count>>,
                                              !.apex = gusset_apexes]
                       /\ bodies' = bodies \o top_triangle
                       /\ ops' = [ops EXCEPT ![k] = @ + 2]
                       /\ UNCHANGED wing
                ELSE /\ bodies' =
                          [bodies EXCEPT ![cur.post].name = post_name(k - 1, j - 1)]
                            \o Trimmed(top_triangle) \o Trimmed(bottom_triangle)
                     /\ cur' = [cur EXCEPT !.extruded = <<top_count, bottom_count>>,
                                              !.apex = gusset_apexes]
                     /\ pc' = "post_loop"
                     /\ ops' = [ops EXCEPT ![k] = @ + 4]
                     /\ wing' = AfterUse(wing, isKeepToolBodies)
                     /\ UNCHANGED err
    /\ UNCHANGED <<inputs, result, out, component, planes, tx, k, j, calls>>

\* the face lists the kernel may report for a rib cut between the two planes:
\* distinct faces on the first plane, on the second, curved, and on the leading edge
FaceLists(plane1, plane2) ==
    {fs \in SeqsOf({[planar |-> TRUE, origin |-> plane1.origin, normal |-> plane1.normal],
                     [planar |-> TRUE, origin |-> plane2.origin, normal |-> plane2.normal],
                     [planar |-> FALSE, origin |-> plane1.origin, normal |-> plane1.normal],
                     [planar |-> TRUE, origin |-> <<8, 0, 0>>, normal |-> CHORDWISE_DIRECTION]},
                    1, MaxFaces) :
        \A a, b \in 1..Len(fs) : a # b => fs[a] # fs[b]}

\* wing.py lines 152-155 : the faces aligned with the construction planes
faces_assert_plane1(plane1_face, plane2_face) ==
    IF plane1_face = 0 THEN "AssertionError: plane1" ELSE "none"

\* wing.py lines 154-155 : the two asserts, "none" when both pass
faces_assert(plane1_face, plane2_face) ==
    IF plane1_face = 0 THEN "AssertionError: plane1"
    ELSE IF plane2_face = 0 THEN "AssertionError: plane2"
    ELSE "none"

Rib_FindFaces ==
    /\ pc = "find_faces"
    /\ \E faces \in FaceLists(planes[cur.plane1], planes[cur.plane2]) :
          LET plane1_face == find_coplanar_face(faces, planes[cur.plane1])
              plane2_face == find_coplanar_face(faces, planes[cur.plane2])
              failed == faces_assert(plane1_face, plane2_face)
          IN  IF failed # "none"
                THEN Raise(failed) /\ pc' = "handler" /\ UNCHANGED cur
                ELSE /\ cur' = [cur EXCEPT !.open =
                                  {faces[i] : i \in {plane1_face, plane2_face} \ {0}}]
                     /\ pc' = "shell"
                     /\ UNCHANGED err
    /\ UNCHANGED <<env, result, out, component, planes, bodies, tx, k, j, ops, calls>>

\* wing.py line 168 : shell_feature_input.insideThickness
inside_thickness_outer == settings.RIB_THICKNESS_CM

inside_thickness == settings.RIB_INSET_CM

\* wing.py lines 159-169 : shell the rib, the two faces open
Rib_Shell ==
    /\ pc = "shell"
    /\ \/ /\ bodies' = [bodies EXCEPT ![cur.rib].shells =
                          Append(@, [open |-> cur.open, inside |-> inside_thickness])]
          /\ pc' = "rib_loop"
          /\ UNCHANGED err
       \/ /\ Raise("RuntimeError: shell failed")
          /\ pc' = "handler"
          /\ UNCHANGED bodies
    /\ KernelOp
    /\ UNCHANGED <<env, result, out, component, planes, tx, k, j, cur, calls>>

(***************************************************************************)
(* CreateSpars.py                                                          *)
(***************************************************************************)
\* f360lib.utils.item_by_name : the named item, or an error when there is none
item_by_name(present) == present

\* CreateSpars.run lines 122-134 : locate the spars sketch and the wing body
Spar_Locate ==
    /\ script = "CreateSpars"
    /\ pc = "start"
    /\ IF ~item_by_name(doc.sparsSketch)
         THEN pc' = "handler" /\ Raise("ValueError: Sketch not found")
         ELSE IF ~item_by_name(doc.wingBody)
           THEN pc' = "handler" /\ Raise("ValueError: Wing body not found")
           ELSE pc' = "spar_component" /\ UNCHANGED err
    /\ UNCHANGED <<env, result, out, component, planes, bodies, tx, k, j, cur, ops, calls>>

\* CreateSpars.run lines 137-139
Spar_NewComponent ==
    /\ pc = "spar_component"
    /\ component' = settings.SPARS_COMPONENT_NAME
    /\ pc' = "spar_loop"
    /\ UNCHANGED <<env, err, result, out, planes, bodies, tx, k, j, cur, ops, calls>>

\* CreateSpars.run lines 142-145 : for i, line in enumerate(lines)
Spar_Loop ==
    /\ pc = "spar_loop"
    /\ IF k < doc.lines
         THEN k' = k + 1 /\ calls' = Append(calls, k + 1) /\ pc' = "spar_planes"
         ELSE UNCHANGED <<k, calls>> /\ pc' = "spar_done"
    /\ cur' = NoCur
    /\ UNCHANGED <<env, err, result, out, component, planes, bodies, tx, j, ops>>

\* the i-th line of the spars sketch runs spanwise at this chordwise position
LineChordwise(i) == 2 * i

\* lines 44-46 : plane through the line at 90 degrees to the horizontal plane
PlaneByAngle(line) ==
    [origin |-> <<LineChordwise(line), 0, 0>>, normal |-> CHORDWISE_DIRECTION,
     visible |-> TRUE]

\* create_spar_from_line lines 41-60 : centre plane, two offset planes, all hidden
Spar_Planes ==
    /\ pc = "spar_planes"
    /\ LET spar_width == settings.SPAR_THICKNESS_CM
           center_plane == PlaneByAngle(k)
           plane1 == PlaneByOffset(center_plane, TrueDiv(spar_width, 2))
           plane2 == PlaneByOffset(center_plane, TrueDiv((0 - 1) * spar_width, 2))
           n == Len(planes)
       IN  /\ planes' = [i \in 1..(n + 3) |->
                          IF i <= n THEN planes[i]
                          ELSE [<<center_plane, plane1, plane2>>[i - n]
                                  EXCEPT !.visible = FALSE]]
           /\ cur' = [cur EXCEPT !.plane1 = n + 2, !.plane2 = n + 3]
           /\ tx' = [NoTx EXCEPT !.caller = "spar", !.p1 = n + 2, !.p2 = n + 3]
    /\ pc' = "bf_input"
    /\ ops' = [ops EXCEPT ![k] = @ + 3]
    /\ UNCHANGED <<env, err, result, out, component, bodies, k, j, calls>>

\* spar.boundingBox : between the two planes chordwise, along the line spanwise
SparBox(plane1, plane2) ==
    [minPoint |-> <<Min2(plane1.origin[1], plane2.origin[1]), doc.span[1], 0>>,
     maxPoint |-> <<Max2(plane1.origin[1], plane2.origin[1]), doc.span[2], doc.height>>]

\* the circle is also placed when it reaches exactly to the end of the spar
circle_fits_or_touches(loc, max_spanwise) ==
    loc + TrueDiv(settings.SPAR_CIRCLE_DIAMETER_CM, 2) <= max_spanwise

\* line 86 : while loc + settings.SPAR_CIRCLE_DIAMETER_CM / 2 < max_spanwise
circle_fits(loc, max_spanwise) ==
    loc + TrueDiv(settings.SPAR_CIRCLE_DIAMETER_CM, 2) < max_spanwise

\* CreateSpars.run line 147 : "spar_{}".format(i + 1)
spar_name(i) == "spar_" \o Dec(i + 1)

\* line 111 : extrude_input.participantBodies = [spar]
participantBodies == {"spar"}

\* create_spar_from_line lines 65-85 : the spanwise extent of the spar, the
\* sketch on the centre plane, the first candidate centre
Spar_Filled ==
    /\ pc = "spar_filled"
    /\ LET bb == SparBox(planes[tx.p1], planes[tx.p2])
           sw1 == project_coord(bb.minPoint, SPANWISE_DIRECTION)
           sw2 == project_coord(bb.maxPoint, SPANWISE_DIRECTION)
           min_spanwise == Min2(sw1, sw2)
           max_spanwise == Max2(sw1, sw2)
       IN  cur' = [cur EXCEPT !.spar = tx.returned,
                              !.min_spanwise = min_spanwise,
                              !.max_spanwise = max_spanwise,
                              !.circle_locs = <<>>,
                              !.loc = min_spanwise + settings.SPAR_CIRCLE_SPACING_CM]
    /\ tx' = NoTx
    /\ pc' = "spar_circles"
    /\ KernelOp
    /\ UNCHANGED <<env, err, result, out, component, planes, bodies, k, j, calls>>

\* lines 86-88 : one test of the while condition, and one pass through its body
Spar_CircleLoop ==
    /\ pc = "spar_circles"
    /\ IF circle_fits(cur.loc, cur.max_spanwise)
         THEN /\ cur' = [cur EXCEPT !.circle_locs = Append(@, cur.loc),
                                    !.loc = cur.loc + settings.SPAR_CIRCLE_SPACING_CM]
              /\ pc' = "spar_circles"
         ELSE /\ pc' = "spar_cut"
              /\ UNCHANGED cur
    /\ UNCHANGED <<env, err, result, out, component, planes, bodies, tx, k, j, ops, calls>>

\* lines 90-115 and run lines 147-148 : the circles, the cut through the spar, the name
Spar_Cut ==
    /\ pc = "spar_cut"
    /\ LET x_offset == TrueDiv(cur.max_spanwise - cur.min_spanwise, 2)
           circles == [i \in 1..Len(cur.circle_locs) |->
                         [centre |-> cur.circle_locs[i] - x_offset,
                          radius |-> TrueDiv(settings.SPAR_CIRCLE_DIAMETER_CM, 2)]]
       IN  \/ /\ bodies' = [bodies EXCEPT ![cur.spar].holes = circles,
                                          ![cur.spar].name = spar_name(k - 1)]
              /\ wing' = IF "wing" \in participantBodies
                           THEN [wing EXCEPT !.holes = circles] ELSE wing
              /\ pc' = "spar_loop"
              /\ UNCHANGED err
           \/ /\ Raise("RuntimeError: extrude failed")
              /\ pc' = "handler"
              /\ UNCHANGED <<bodies, wing>>
    /\ KernelOp
    /\ UNCHANGED <<inputs, result, out, component, planes, tx, k, j, cur, calls>>

\* CreateSpars.run line 150 : ui.messageBox('done')
Spar_Done ==
    /\ pc = "spar_done"
    /\ \E ui \in BOOLEAN :
          IF ui
            THEN /\ out' = [out EXCEPT !.boxes = Append(@, "done")]
                 /\ result' = "returned"
                 /\ pc' = "done"
                 /\ UNCHANGED err
            ELSE /\ Raise("AttributeError: ui is None")
                 /\ pc' = "handler"
                 /\ UNCHANGED <<out, result>>
    /\ UNCHANGED <<env, component, planes, bodies, tx, k, j, cur, ops, calls>>

(***************************************************************************)
(* run : except Exception as ex                                            *)
(***************************************************************************)
\* after the handler nothing more of the run executes
handler_continues == IF script = "CreateWingRibs" THEN "rib_loop" ELSE "spar_loop"

handler_next == "done"

\* how the handler leaves run
handler_reraises == "raised"

handler_result == "returned"

\* CreateWingRibs.py lines 68-72, CreateSpars.py lines 152-156
Run_Handler ==
    /\ pc = "handler"
    /\ \E ui \in BOOLEAN :
          /\ err = "AttributeError: ui is None" => ~ui
          /\ out' = [failed |-> out.failed + 1,
                     boxes |-> IF ui THEN Append(out.boxes, err) ELSE out.boxes]
    /\ result' = handler_result
    /\ pc' = handler_next
    /\ UNCHANGED <<env, err, component, planes, bodies, tx, k, j, cur, ops, calls>>

Next ==
    \/ Run_LocateSketch
    \/ Run_LocateBody
    \/ Run_Chord
    \/ Run_NewComponent
    \/ Run_RibLoop
    \/ CreateRibBody_Planes
    \/ BF_CreateInput
    \/ BF_Select
    \/ BF_Add
    \/ BF_Check
    \/ BF_Except
    \/ Rib_Filled
    \/ Rib_PostLoop
    \/ Post_Planes
    \/ Post_Filled
    \/ Post_Gussets
    \/ Rib_FindFaces
    \/ Rib_Shell
    \/ Spar_Locate
    \/ Spar_NewComponent
    \/ Spar_Loop
    \/ Spar_Planes
    \/ Spar_Filled
    \/ Spar_CircleLoop
    \/ Spar_Cut
    \/ Spar_Done
    \/ Run_Handler

Spec == Init /\ [][Next]_vars

(***************************************************************************)
(* The spar script on its own.  run(context) is one thread that the host    *)
(* runs to its end: a step that can be taken is taken.                      *)
(***************************************************************************)
InitSpars ==
    /\ script = "CreateSpars"
    /\ settings \in {st \in RibSettings :
                        /\ st.RIB_STATIONS_CM = <<>>
                        /\ st.RIB_POST_ROOT_LOCS_CM = <<>>
                        /\ st.RIB_POST_LOC_TYPE = "absolute"}
    /\ doc \in SparDocuments
    /\ ops = [i \in 1..Members |-> 0]
    /\ Idle

NextSpars ==
    \/ Spar_Locate
    \/ Spar_NewComponent
    \/ Spar_Loop
    \/ Spar_Planes
    \/ BF_CreateInput
    \/ BF_Select
    \/ BF_Add
    \/ BF_Check
    \/ BF_Except
    \/ Spar_Filled
    \/ Spar_CircleLoop
    \/ Spar_Cut
    \/ Spar_Done
    \/ Run_Handler

SpecSpars == InitSpars /\ [][NextSpars]_vars /\ WF_vars(NextSpars)

(***************************************************************************)
(* Cell selection on its own: one pending partition with the cells and     *)
(* the two parallel planes drawn from bounded sets, and the selection      *)
(* step of boundary_fill_between_planes applied to it.                     *)
(***************************************************************************)
\* unit normals along the three axes, both senses
Normals == {<<1, 0, 0>>, <<0, 1, 0>>, <<0, 0, 1>>,
            <<0 - 1, 0, 0>>, <<0, 0 - 1, 0>>, <<0, 0, 0 - 1>>}

\* a plane with the given unit normal at coordinate c along it, its origin
\* displaced sideways within the plane
PlaneAt(n, c) ==
    [origin |-> [i \in 1..3 |-> IF n[i] = 0 THEN 1 ELSE c * n[i]],
     normal |-> n,
     visible |-> TRUE]

InitSel ==
    /\ script = "CreateWingRibs"
    /\ settings \in {st \in RibSettings :
                        /\ st.RIB_STATIONS_CM = <<>>
                        /\ st.RIB_POST_ROOT_LOCS_CM = <<>>
                        /\ st.RIB_POST_LOC_TYPE = "absolute"
                        /\ st.SPAR_CIRCLE_DIAMETER_CM = 2 /\ st.SPAR_CIRCLE_SPACING_CM = 2}
    /\ doc \in {d \in RibDocuments :
                   d.rootSketch /\ d.wingBody /\ d.taper = 0 /\ d.sweep = 0 /\ d.height = 4}
    /\ fn = NoCall
    /\ wing = WingBody
    /\ pc = "bf_select"
    /\ err = "none"
    /\ result = "running"
    /\ out = [failed |-> 0, boxes |-> <<>>]
    /\ component = settings.RIB_COMPONENT_NAME
    /\ bodies = <<>>
    /\ k = 0
    /\ j = 0
    /\ cur = NoCur
    /\ calls = <<>>
    /\ ops = <<>>
    /\ \E n \in Normals, c1 \in 0..SelMaxCoord, c2 \in 0..SelMaxCoord :
          /\ planes = <<PlaneAt(n, c1), PlaneAt(n, c2)>>
          /\ \E cs \in SeqsOf((0 - 1)..(SelMaxCoord + 1), 2, 3) :
                tx = [NoTx EXCEPT !.state = "pending", !.caller = "rib", !.p1 = 1, !.p2 = 2,
                                  !.cells = [i \in 1..Len(cs) |-> CellAt(n, cs[i])],
                                  !.cell_count = Len(cs),
                                  !.between =
                                      Cardinality(Inside([i \in 1..Len(cs) |-> CellAt(n, cs[i])],
                                                         PlaneAt(n, c1), PlaneAt(n, c2)))]

NextSel == BF_Select

SpecSel == InitSel /\ [][NextSel]_vars

(***************************************************************************)
(* Runs on settings files whose thicknesses and widths are not restricted  *)
(* to positive values: a settings file is a Python module that is loaded   *)
(* as it is (load_settings_from_file), nothing checks its values.          *)
(***************************************************************************)
\* a thickness or width a settings file may declare, zero included
Thicknesses == {0, 2}

\* post positions a settings file may declare: those of PostRootLocs, and one
\* post further from the leading edge than the wing is long
AnyPostRootLocs == PostRootLocs \cup {<<2 * (WingChord[2] - WingChord[1])>>}

AnySettings ==
    {[st EXCEPT !.RIB_THICKNESS_CM = t, !.RIB_POST_WIDTH_CM = w, !.SPAR_THICKNESS_CM = u,
                !.RIB_POST_ROOT_LOCS_CM = l] :
        st \in {r \in RibSettings : /\ r.RIB_POST_LOC_TYPE = "absolute"
                                    /\ r.SPAR_CIRCLE_DIAMETER_CM = 2 /\ r.SPAR_CIRCLE_SPACING_CM = 2
                                    /\ r.RIB_POST_ROOT_LOCS_CM = <<>>},
        t \in Thicknesses, w \in Thicknesses, u \in Thicknesses,
        l \in AnyPostRootLocs}

\* runs over at most one station or line, on a straight wing
InitAny ==
    /\ \/ /\ script = "CreateWingRibs"
          /\ settings \in {st \in AnySettings : Len(st.RIB_STATIONS_CM) <= 1}
          /\ doc \in {d \in RibDocuments :
                         d.rootSketch /\ d.wingBody /\ d.taper = 0 /\ d.sweep = 0}
       \/ /\ script = "CreateSpars"
          /\ settings \in {st \in AnySettings :
                              st.RIB_STATIONS_CM = <<>> /\ st.RIB_POST_ROOT_LOCS_CM = <<>>}
          /\ doc \in {d \in SparDocuments : d.lines <= 1}
    /\ ops = [i \in 1..Members |-> 0]
    /\ Idle

SpecAny == InitAny /\ [][Next]_vars

(***************************************************************************)
(* The library functions called on their own: the arguments are drawn from *)
(* bounded sets, one step applies the function and records what it returns.*)
(***************************************************************************)
\* fractions, as rationals <<num, den>>
Fracs == {<<0, 1>>, <<1, 1>>, <<1, 2>>, <<1, 4>>, <<3, 4>>}

\* coordinates of the arguments
FunCoords == (0 - FunMaxCoord)..FunMaxCoord

\* relative_location(from_loc, to_loc, frac)
RelativeLocationCall(a, b, f) ==
    [name |-> "relative_location", args |-> <<a, b, f>>, ret |-> <<>>]

\* WingRibs.py lines 161-200.  normalize() keeps the direction of a vector, so
\* each dot product has the sign of the product of the vectors before they
\* are normalised: dots holds the signs (-1, 0, 1), indices are those of Python
VecSub(u, v) == [i \in 1..3 |-> u[i] - v[i]]

Sign(n) == IF n < 0 THEN 0 - 1 ELSE IF n > 0 THEN 1 ELSE 0

dots(points) ==
    [i \in 0..2 |->
        LET a == points[i + 1]
            b == points[((i + 1) % 3) + 1]
            c == points[((i + 2) % 3) + 1]
        IN  Sign(Dot(VecSub(b, a), VecSub(c, a)))]

\* the index of the point after the one whose dot product is negative
index_of_point_in_middle_next(points) ==
    LET negative_dots == {i \in 0..2 : dots(points)[i] < 0}
    IN  IF Cardinality(negative_dots) # 1 THEN 0 - 1
        ELSE ((CHOOSE i \in negative_dots : TRUE) + 1) % 3

\* the index returned, -1 when the assertion on the negative dot products fails
index_of_point_in_middle(points) ==
    LET negative_dots == {i \in 0..2 : dots(points)[i] < 0}
    IN  IF Cardinality(negative_dots) # 1 THEN 0 - 1
        ELSE CHOOSE i \in negative_dots : \A h \in negative_dots : i <= h

\* directions and starting points of the lines the three points are taken on
LineDirections == {<<1, 0, 0>>, <<0, 1, 0>>, <<1, 1, 0>>, <<0 - 1, 2, 1>>}

LineOrigins == {<<0, 0, 0>>, <<1, 0 - 2, 3>>}

\* index_of_point_in_middle on three points of the line from o in direction d,
\* at the steps t
PointInMiddleCall(o, d, t) ==
    [name |-> "index_of_point_in_middle",
     args |-> <<[i \in 1..3 |-> VecAdd(o, VecScale(d, t[i]))]>>,
     ret |-> <<>>]

\* the first of the three cells, wherever it lies
cell_in_the_middle_first(cells) == IF Len(cells) # 3 THEN 0 ELSE 1

\* WingRibs.py lines 138-147 : index (1-based) of the cell returned, 0 when the
\* assertion on the number of cells or that on the dot products fails
cell_in_the_middle(cells) ==
    IF Len(cells) # 3 THEN 0
    ELSE LET centroids == [i \in 1..3 |-> centroid_of_bounding_box(cells[i].bb)]
             idx == index_of_point_in_middle(centroids)
         IN  idx + 1

\* the cells of a partition between two planes, given to one or the other of
\* the two selection functions; cell_in_the_middle takes the cells only
SelectionCall(f, n, c1, c2, cs) ==
    [name |-> f,
     args |-> <<[i \in 1..Len(cs) |-> CellAt(n, cs[i])], PlaneAt(n, c1), PlaneAt(n, c2)>>,
     ret |-> <<>>]

\* the three axes, as directions of length 1..MaxAxisLen
AxisDirections ==
    {VecScale(d, len) :
        d \in {CHORDWISE_DIRECTION, SPANWISE_DIRECTION, VERTICAL_UP_DIRECTION},
        len \in 1..MaxAxisLen}

\* project_coord(point, direction)
ProjectCoordCall(pt, d) ==
    [name |-> "project_coord", args |-> <<pt, d>>, ret |-> <<>>]

InitFun ==
    /\ script = "CreateWingRibs"
    /\ settings \in {st \in RibSettings :
                        /\ st.RIB_STATIONS_CM = <<>>
                        /\ st.RIB_POST_ROOT_LOCS_CM = <<>>
                        /\ st.RIB_POST_LOC_TYPE = "absolute"
                        /\ st.SPAR_CIRCLE_DIAMETER_CM = 2 /\ st.SPAR_CIRCLE_SPACING_CM = 2}
    /\ doc \in {d \in RibDocuments :
                   d.rootSketch /\ d.wingBody /\ d.taper = 0 /\ d.sweep = 0 /\ d.height = 4}
    /\ pc = "call"
    /\ wing = WingBody
    /\ err = "none"
    /\ result = "running"
    /\ out = [failed |-> 0, boxes |-> <<>>]
    /\ component = ""
    /\ planes = <<>>
    /\ bodies = <<>>
    /\ tx = NoTx
    /\ k = 0
    /\ j = 0
    /\ cur = NoCur
    /\ calls = <<>>
    /\ ops = <<>>
    /\ \/ \E a \in FunCoords, b \in FunCoords, f \in Fracs :
             \* the result is a whole number
             /\ ((b - a) * f[1]) % f[2] = 0
             /\ fn = RelativeLocationCall(a, b, f)
       \/ \E a \in FunCoords, b \in FunCoords, c \in FunCoords, d \in AxisDirections :
             fn = ProjectCoordCall(<<a, b, c>>, d)
       \* three colinear points in every order, two or three of them coinciding included
       \/ \E o \in LineOrigins, d \in LineDirections, t \in [1..3 -> 0..MidMaxStep] :
             fn = PointInMiddleCall(o, d, t)
       \/ \E f \in {"cell_between_planes", "cell_in_the_middle"}, n \in Normals,
             c1 \in 0..SelMaxCoord, c2 \in 0..SelMaxCoord,
             cs \in SeqsOf((0 - 1)..(SelMaxCoord + 1), 2, 3) :
             fn = SelectionCall(f, n, c1, c2, cs)

\* utils.py lines 176-191
Call_relative_location ==
    /\ pc = "call"
    /\ fn.name = "relative_location"
    /\ fn' = [fn EXCEPT !.ret = <<relative_location(fn.args[1], fn.args[2], fn.args[3])>>]
    /\ pc' = "return"
    /\ UNCHANGED <<script, settings, doc, err, result, out, component, planes, bodies,
                   tx, k, j, cur, ops, calls, wing>>

\* utils.py lines 117-137
Call_project_coord ==
    /\ pc = "call"
    /\ fn.name = "project_coord"
    /\ fn' = [fn EXCEPT !.ret = <<project_coord(fn.args[1], fn.args[2])>>]
    /\ pc' = "return"
    /\ UNCHANGED <<script, settings, doc, err, result, out, component, planes, bodies,
                   tx, k, j, cur, ops, calls, wing>>

\* WingRibs.py lines 161-200
Call_index_of_point_in_middle ==
    /\ pc = "call"
    /\ fn.name = "index_of_point_in_middle"
    /\ LET idx == index_of_point_in_middle(fn.args[1])
       IN  IF idx >= 0
             THEN fn' = [fn EXCEPT !.ret = <<idx>>] /\ UNCHANGED err
             ELSE Raise("AssertionError: expected exactly 1 negative dot product.")
                    /\ UNCHANGED fn
    /\ pc' = "return"
    /\ UNCHANGED <<script, settings, doc, result, out, component, planes, bodies,
                   tx, k, j, cur, ops, calls, wing>>

\* utils.py lines 91-103
Call_cell_between_planes ==
    /\ pc = "call"
    /\ fn.name = "cell_between_planes"
    /\ LET cell == cell_between_planes(fn.args[1], fn.args[2], fn.args[3])
       IN  IF cell # 0
             THEN fn' = [fn EXCEPT !.ret = <<cell>>] /\ UNCHANGED err
             ELSE Raise("AssertionError: Expected 1 cell in between planes")
                    /\ UNCHANGED fn
    /\ pc' = "return"
    /\ UNCHANGED <<script, settings, doc, result, out, component, planes, bodies,
                   tx, k, j, cur, ops, calls, wing>>

\* WingRibs.py lines 138-147
Call_cell_in_the_middle ==
    /\ pc = "call"
    /\ fn.name = "cell_in_the_middle"
    /\ LET cell == cell_in_the_middle(fn.args[1])
       IN  IF cell # 0
             THEN fn' = [fn EXCEPT !.ret = <<cell>>] /\ UNCHANGED err
             ELSE Raise(IF Len(fn.args[1]) # 3
                          THEN "AssertionError: expected 3 cells"
                          ELSE "AssertionError: expected exactly 1 negative dot product.")
                    /\ UNCHANGED fn
    /\ pc' = "return"
    /\ UNCHANGED <<script, settings, doc, result, out, component, planes, bodies,
                   tx, k, j, cur, ops, calls, wing>>

NextFun ==
    \/ Call_relative_location
    \/ Call_project_coord
    \/ Call_index_of_point_in_middle
    \/ Call_cell_between_planes
    \/ Call_cell_in_the_middle

SpecFun == InitFun /\ [][NextFun]_vars

(***************************************************************************)
(* Vocabulary of the properties.                                           *)
(***************************************************************************)
\* boundary_fill_between_planes has raised: the error is on its way to, or at, the caller
BFRaised == pc \in {"handler", "done"} /\ tx.state # "none"

\* boundary_fill_between_planes has returned to its caller
BFReturned == pc \in {"rib_filled", "post_filled", "spar_filled"}

\* cancel() was requested on the transaction, and took effect unless cancel itself raised
Cancelled ==
    /\ tx.cancelCalls = 1
    /\ ~tx.cancelRaised => tx.state = "cancelled"

\* no cell of the transaction was selected or committed, and no body was returned
NothingCommitted ==
    /\ tx.selected = 0
    /\ ~tx.added
    /\ tx.nBodies = 0
    /\ tx.returned = 0
    /\ tx.state # "committed"

(***************************************************************************)
(* Properties.                                                             *)
(***************************************************************************)

\* C1: when the kernel returns a number of partition cells other than 2 or 3,
\* boundary_fill_between_planes raises, no cell is selected or committed (the
\* boundary-fill feature is never added, no body is returned), and before the
\* error leaves the function the pending partition is cancelled.
C1_InvalidCellCount ==
    (tx.state # "none" /\ tx.cell_count \notin {2, 3} /\ pc # "bf_select")
      => /\ pc \in {"bf_except", "handler", "done"}
         /\ err = "Exception: Expected exactly 2 or 3 cells"
         /\ NothingCommitted
         /\ pc \in {"handler", "done"} => Cancelled

\* a partition of 4 cells was refused and cancelled
C1_Witness ==
    /\ pc = "handler"
    /\ tx.cell_count = 4
    /\ err = "Exception: Expected exactly 2 or 3 cells"
    /\ tx.state = "cancelled"

\* C2: when the partition returns 2 or 3 cells and the number of cells whose
\* bounding-box centroid lies between the two planes is zero or more than one,
\* the selection fails: no cell is committed, the transaction is cancelled and
\* the assertion error reaches the caller of boundary_fill_between_planes.
C2_DisambiguationFails ==
    (/\ tx.state # "none"
     /\ pc # "bf_select"
     /\ tx.cell_count \in {2, 3}
     /\ tx.between # 1)
      => /\ pc \in {"bf_except", "handler", "done"}
         /\ err = "AssertionError: Expected 1 cell in between planes"
         /\ NothingCommitted
         /\ pc \in {"handler", "done"} => Cancelled

\* three cells, two of them between the planes: refused and cancelled
C2_Witness ==
    /\ pc = "handler"
    /\ tx.cell_count = 3
    /\ tx.between = 2
    /\ err = "AssertionError: Expected 1 cell in between planes"
    /\ tx.state = "cancelled"

\* after the selection: one cell is kept and its centroid lies in the closed interval
C3_Selected ==
    (pc # "bf_select" /\ tx.cell_count \in {2, 3} /\ tx.between = 1)
      => LET n == planes[tx.p1].normal
             a == Along(planes[tx.p1].origin, n)
             b == Along(planes[tx.p2].origin, n)
         IN  /\ pc = "bf_add"
             /\ tx.selected \in 1..tx.cell_count
             /\ Len(tx.kept) = 1
             /\ Min2(a, b) <= Along(MidPoint(tx.kept[1].bb), n)
             /\ Along(MidPoint(tx.kept[1].bb), n) <= Max2(a, b)

\* the selection step: the cell kept is the one inside, with either order of the planes
C3_Step ==
    (pc = "bf_select" /\ Cardinality(Inside(tx.cells, planes[tx.p1], planes[tx.p2])) = 1)
      => /\ tx'.selected \in Inside(tx.cells, planes[tx.p1], planes[tx.p2])
         /\ tx'.kept = <<tx.cells[tx'.selected]>>
         /\ cell_between_planes(tx.cells, planes[tx.p2], planes[tx.p1]) = tx'.selected

\* C3: plane-interval strategy.  For 2 or 3 cells and two parallel planes, when
\* exactly one cell has its centroid coordinate along the shared normal in the
\* closed interval between the two plane coordinates, that cell is the one
\* selected, and the selection is the same with plane1 and plane2 swapped.
C3_PlaneInterval == []C3_Selected /\ [][C3_Step]_vars

\* centroids at 1 and 3, planes at 0 and 2: the cell at 1 is selected
C3_Witness ==
    /\ pc = "bf_add"
    /\ Along(planes[tx.p1].origin, planes[tx.p1].normal) = 0
    /\ Along(planes[tx.p2].origin, planes[tx.p2].normal) = 2
    /\ tx.cell_count = 2
    /\ tx.selected = 1
    /\ Along(MidPoint(tx.kept[1].bb), planes[tx.p1].normal) = 1

\* C4: every partition transaction opened by boundary_fill_between_planes ends,
\* when the function returns or raises, in exactly one of two outcomes:
\* committed with exactly one selected cell, or cancelled; never pending, never
\* both committed and cancelled.
C4_CommittedXorCancelled ==
    (BFReturned \/ BFRaised)
      => \/ tx.added /\ tx.selected # 0 /\ tx.cancelCalls = 0
         \/ ~tx.added /\ tx.cancelCalls = 1

\* C10: boundary_fill_between_planes returns a body only when the committed
\* feature holds exactly one body, and it is that body; with any other number
\* of bodies it raises and returns none.
C10_SingleBody ==
    /\ BFReturned
         => /\ tx.added
            /\ tx.nBodies = 1
            /\ tx.returned = Len(bodies)
            /\ bodies[tx.returned].from = tx.caller
    /\ (tx.added /\ tx.nBodies # 1 /\ pc # "bf_check")
         => /\ pc \in {"bf_except", "handler", "done"}
            /\ err = "AssertionError: expected a single rib body to be created"
            /\ tx.returned = 0

\* the kernel committed two bodies: the function raised and returned none
C10_Witness ==
    /\ pc = "handler"
    /\ tx.added
    /\ tx.nBodies = 2
    /\ tx.returned = 0

\* the bodies the run builds as members: ribs for the rib script, spars for the spar script
MemberFrom == IF script = "CreateWingRibs" THEN "rib" ELSE "spar"

MemberBodies == SelectSeq(bodies, LAMBDA b : b.from = MemberFrom)

\* the name the k-th declared entry is to carry
ExpectedName(i) ==
    IF script = "CreateWingRibs"
      THEN <<"rib_1", "rib_2", "rib_3", "rib_4", "rib_5">>[i]
      ELSE <<"spar_1", "spar_2", "spar_3", "spar_4", "spar_5">>[i]

\* where the first bounding plane of the i-th declared entry lies
DeclaredAt(i) ==
    IF script = "CreateWingRibs"
      THEN Stations[i]
      ELSE LineChordwise(i) + TrueDiv(settings.SPAR_THICKNESS_CM, 2)

\* every declared entry has its member, named
AllBuilt ==
    /\ Len(MemberBodies) = Members
    /\ \A i \in 1..Members : MemberBodies[i].name = ExpectedName(i)

\* the member of station i is there, named, and (a rib) shelled
BuiltStation(i) ==
    \E n \in 1..Len(bodies) :
        /\ bodies[n].from = MemberFrom
        /\ bodies[n].station = i
        /\ bodies[n].name = ExpectedName(i)
        /\ script = "CreateWingRibs" => Len(bodies[n].shells) = 1

\* C5, in every state: once building station k has failed, the members of
\* stations 1..k-1 are present, the builder was invoked once for each of
\* 1..k and for no other, and no kernel operation was issued for a later station.
C5_AfterFailure ==
    (err # "none" /\ k >= 1)
      => /\ \A i \in 1..(k - 1) : BuiltStation(i)
         /\ calls = [i \in 1..k |-> i]
         /\ \A i \in (k + 1)..Members : ops[i] = 0

\* C5, in every step: the bodies of earlier stations are left as they are, and
\* after a failure no body, plane or station changes.
C5_Step ==
    /\ \A n \in 1..Len(bodies) :
          bodies[n].station < k => Len(bodies') >= n /\ bodies'[n] = bodies[n]
    /\ err # "none"
         => /\ err' = err
            /\ k' = k
            /\ bodies' = bodies
            /\ planes' = planes
            /\ calls' = calls

\* C5: if building the member for station k fails at any step, the members
\* built for stations 1..k-1 remain present and unchanged, station k is not
\* retried, and no kernel operation is issued for any station after k.
C5_FailureAborts == []C5_AfterFailure /\ [][C5_Step]_vars

\* the shell of rib_2 failed: rib_1 is there, shelled, and the run is over
C5_Witness ==
    /\ pc = "done"
    /\ err = "RuntimeError: shell failed"
    /\ k = 2
    /\ BuiltStation(1)
    /\ ~BuiltStation(2)

\* C6: members are built in the declared order of the station list, without
\* reordering or deduplication, and the member of the k-th declared entry
\* (counting from 1) is named rib_k, or spar_k for spars.
C6_DeclaredOrder ==
    err = "none"
      => /\ \A n \in 1..Len(MemberBodies) :
               /\ MemberBodies[n].station \in 1..Members
               /\ MemberBodies[n].at = DeclaredAt(MemberBodies[n].station)
               /\ n > 1 => MemberBodies[n - 1].station <= MemberBodies[n].station
         /\ \A i \in 1..Members :
               (i < k \/ pc = "done")
                 => /\ Len(MemberBodies) >= i
                    /\ MemberBodies[i].station = i
                    /\ MemberBodies[i].name = ExpectedName(i)
                    /\ \A n \in 1..Len(MemberBodies) :
                          MemberBodies[n].station = i => n = i
         /\ pc = "done" => AllBuilt

\* the station 2 is declared twice and built twice, as rib_1 and rib_2
C6_Witness ==
    /\ pc = "done"
    /\ err = "none"
    /\ script = "CreateWingRibs"
    /\ Stations = <<2, 2>>
    /\ Len(MemberBodies) = 2
    /\ MemberBodies[2].name = "rib_2"

\* C7: when the root sketch or the wing body is not found by name, the rib
\* run fails with the not-found error, and when the error is raised no
\* component, construction plane, partition or body has been created.
C7_NotFoundBeforeMutation ==
    script = "CreateWingRibs"
      => /\ (~doc.rootSketch /\ pc # "start")
              => err = "ValueError: Root sketch not found" /\ pc \in {"handler", "done"}
         /\ (doc.rootSketch /\ ~doc.wingBody /\ pc \notin {"start", "locate_body"})
              => err = "ValueError: Wing body not found" /\ pc \in {"handler", "done"}
         /\ err \in {"ValueError: Root sketch not found", "ValueError: Wing body not found"}
              => /\ component = ""
                 /\ planes = <<>>
                 /\ bodies = <<>>
                 /\ tx = NoTx
                 /\ calls = <<>>
                 /\ \A i \in 1..Members : ops[i] = 0

\* the wing body is missing: the error is raised with nothing created
C7_Witness ==
    /\ script = "CreateWingRibs"
    /\ pc = "handler"
    /\ err = "ValueError: Wing body not found"
    /\ Members > 0

\* C8 as claimed: whenever a step of the run fails, run(context) ends by
\* raising, and it returns normally only when every station was built.
C8_RaisesOnFailure ==
    pc = "done"
      => /\ err # "none" => result = "raised"
         /\ result = "returned" => AllBuilt

\* C8 as the code has it: run always returns normally; a failed step is caught
\* in run, which writes one "Failed" log line and shows the error text in a
\* message box when the user interface is available; when no step failed,
\* every station was built.
C8_FailureIsLogged ==
    pc = "done"
      => /\ result = "returned"
         /\ err # "none" => out.failed = 1 /\ out.boxes \in {<<>>, <<err>>}
         /\ err = "none" => out.failed = 0 /\ AllBuilt

\* a partition failed at the first of two stations, and run returned normally
C8_Witness ==
    /\ pc = "done"
    /\ err = "Exception: Expected exactly 2 or 3 cells"
    /\ result = "returned"
    /\ out.failed = 1
    /\ Members = 2
    /\ ~AllBuilt

\* the body is shelled once, to the declared inset, its open faces being the two
\* planar faces on its two bounding planes
ShelledAsDeclared(b) ==
    /\ Len(b.shells) = 1
    /\ b.shells[1].inside = settings.RIB_INSET_CM
    /\ Cardinality(b.shells[1].open) = 2
    /\ \E f1, f2 \in b.shells[1].open :
          /\ f1.planar /\ f2.planar
          /\ Cross(f1.normal, SPANWISE_DIRECTION) = <<0, 0, 0>>
          /\ Cross(f2.normal, SPANWISE_DIRECTION) = <<0, 0, 0>>
          /\ Along(f1.origin, SPANWISE_DIRECTION) = b.at
          /\ Along(f2.origin, SPANWISE_DIRECTION) = b.at + settings.RIB_THICKNESS_CM

\* C9: the rib of every station that builds successfully is shelled exactly
\* once, with exactly the two faces coplanar with its two bounding planes open
\* and the declared inset as inside thickness; a run over N stations in which
\* nothing fails ends with exactly N ribs rib_1..rib_N, each shelled this way.
C9_ShelledOnce ==
    script = "CreateWingRibs"
      => /\ \A n \in 1..Len(bodies) :
               /\ Len(bodies[n].shells) <= 1
               /\ bodies[n].from # "rib" => bodies[n].shells = <<>>
               /\ (/\ bodies[n].from = "rib"
                   /\ \/ bodies[n].station < k
                      \/ pc \in {"rib_loop", "done"} /\ err = "none")
                    => ShelledAsDeclared(bodies[n])
         /\ (pc = "done" /\ err = "none")
               => /\ AllBuilt
                  /\ \A i \in 1..Members : ShelledAsDeclared(MemberBodies[i])

\* two stations, nothing failed: rib_1 and rib_2, both shelled
C9_Witness ==
    /\ script = "CreateWingRibs"
    /\ pc = "done"
    /\ err = "none"
    /\ Members = 2
    /\ AllBuilt
    /\ \A i \in 1..Members : ShelledAsDeclared(MemberBodies[i])

\* the errors raised inside the try block of boundary_fill_between_planes
BFErrors ==
    {"Exception: Expected exactly 2 or 3 cells",
     "AssertionError: Expected 1 cell in between planes",
     "RuntimeError: boundary fill failed",
     "AssertionError: expected a single rib body to be created"}

\* C11: if cancelling a failed partition transaction itself raises, that second
\* error is swallowed: the except block leaves the error that triggered the
\* rollback unchanged, and the caller of boundary_fill_between_planes receives
\* that error, never the cancellation error.
C11_CancelErrorSwallowed ==
    /\ [](BFRaised => err \in BFErrors)
    /\ [][pc = "bf_except" => (err' = err /\ pc' = "handler")]_vars

\* cancel() raised while a partition with a bad cell count was rolled back
C11_Witness ==
    /\ pc = "handler"
    /\ tx.cancelRaised
    /\ tx.cancelCalls = 1
    /\ tx.state = "pending"
    /\ err = "Exception: Expected exactly 2 or 3 cells"

\* the post positions of the rib being built have been resolved
PostsResolved == script = "CreateWingRibs" /\ k >= 1 /\ cur.rib # 0

\* the declared position of post i, as a coordinate and as a distance from the
\* chordwise start of the wing
DeclaredPostLocs(i) ==
    {settings.RIB_POST_ROOT_LOCS_CM[i], WingChord[1] + settings.RIB_POST_ROOT_LOCS_CM[i]}

\* the declared fraction of the local chord of station k, from its chordwise start
ProportionalPostLoc(i) ==
    LET chord == RibChord(Stations[k])
    IN  chord[1] + TrueDiv(settings.RIB_POST_ROOT_LOCS_CM[i] * (chord[2] - chord[1]),
                           WingChord[2] - WingChord[1])

\* C12: post positions are resolved according to the mode flag: with
\* RIB_POST_LOC_TYPE = 'absolute' each post is at its declared absolute
\* chordwise position at every station, with 'proportional' it is at the
\* declared fraction of the station's local chord.
C12_PostLocMode ==
    PostsResolved
      => \A i \in 1..Len(cur.locs) :
            IF settings.RIB_POST_LOC_TYPE = "absolute"
              THEN cur.locs[i] \in DeclaredPostLocs(i)
              ELSE cur.locs[i] = ProportionalPostLoc(i)

\* the chord of the rib cut at the root station
RootChord == <<WingChord[1], WingChord[2] - doc.sweep * TipStation>>

\* C13: in proportional mode the fraction of a post is its declared root
\* position over the root chord length, and at every station the post is placed
\* at that fraction of the station's local chord, measured from the station's
\* chordwise start.
C13_FractionOfRootChord ==
    (PostsResolved /\ settings.RIB_POST_LOC_TYPE = "proportional")
      => \A i \in 1..Len(cur.locs) :
            LET chord == RibChord(Stations[k])
            IN  cur.locs[i] =
                  chord[1] + TrueDiv(settings.RIB_POST_ROOT_LOCS_CM[i] * (chord[2] - chord[1]),
                                     RootChord[2] - RootChord[1])


\* C14: relative_location(from, to, frac) returns from + (to - from) * frac for
\* all inputs, from > to and negative values included; frac = 0 yields from and
\* frac = 1 yields to.
C14_RelativeLocation ==
    (fn.name = "relative_location" /\ pc = "return")
      => LET from == fn.args[1]
             to == fn.args[2]
             num == fn.args[3][1]
             den == fn.args[3][2]
         IN  /\ Len(fn.ret) = 1
             /\ den * fn.ret[1] = den * from + (to - from) * num
             /\ num = 0 => fn.ret[1] = from
             /\ num = den => fn.ret[1] = to

\* relative_location(6, -5, 1) = -5 : from > to, negative result
C14_Witness ==
    /\ pc = "return"
    /\ fn.name = "relative_location"
    /\ fn.args = <<6, 0 - 5, <<1, 1>>>>
    /\ fn.ret = <<0 - 5>>

\* C15: project_coord(point, axis) returns the point's x, y or z coordinate when
\* axis is the unit chordwise (1,0,0), spanwise (0,1,0) or vertical (0,0,1)
\* direction respectively, for every point.
C15_ProjectOnAxes ==
    (fn.name = "project_coord" /\ pc = "return")
      => /\ Len(fn.ret) = 1
         /\ fn.args[2] = <<1, 0, 0>> => fn.ret[1] = fn.args[1][1]
         /\ fn.args[2] = <<0, 1, 0>> => fn.ret[1] = fn.args[1][2]
         /\ fn.args[2] = <<0, 0, 1>> => fn.ret[1] = fn.args[1][3]

\* project_coord((1,2,3), (0,1,0)) = 2
C15_Witness ==
    /\ pc = "return"
    /\ fn.name = "project_coord"
    /\ fn.args = <<<<1, 2, 3>>, <<0, 1, 0>>>>
    /\ fn.ret = <<2>>

\* point m lies strictly between points a and b of one line
StrictlyBetween(m, a, b) ==
    /\ m # a /\ m # b
    /\ \A c \in 1..3 : Min2(a[c], b[c]) <= m[c] /\ m[c] <= Max2(a[c], b[c])

\* C16: colinear-midpoint strategy.  For three distinct colinear points in any
\* order exactly one of the three dot products is negative, and the index
\* returned is that of the point lying between the other two.
C16_PointInMiddle ==
    (/\ fn.name = "index_of_point_in_middle"
     /\ pc = "return"
     /\ \A a, b \in 1..3 : a # b => fn.args[1][a] # fn.args[1][b])
      => LET points == fn.args[1]
         IN  /\ err = "none"
             /\ Cardinality({i \in 0..2 : dots(points)[i] < 0}) = 1
             /\ Len(fn.ret) = 1
             /\ fn.ret[1] \in 0..2
             /\ dots(points)[fn.ret[1]] < 0
             /\ \E a, b \in (1..3) \ {fn.ret[1] + 1} :
                   a # b /\ StrictlyBetween(points[fn.ret[1] + 1], points[a], points[b])

\* (0,0,0), (1,0,0), (2,0,0) : index 1
C16_Witness ==
    /\ pc = "return"
    /\ fn.name = "index_of_point_in_middle"
    /\ fn.args = <<<< <<0, 0, 0>>, <<1, 0, 0>>, <<2, 0, 0>> >>>>
    /\ fn.ret = <<1>>

\* the vertical extent of a post strictly exceeds twice the gusset triangle side
PostIsTall == doc.height > 2 * settings.RIB_POST_TRIANGLE_LEN_CM

\* the gussets extruded for the post body b
GussetsOf(b) ==
    {n \in 1..Len(bodies) :
        /\ bodies[n].from = "gusset"
        /\ bodies[n].station = b.station
        /\ bodies[n].at = b.at + TrueDiv(settings.RIB_POST_WIDTH_CM, 2)}

\* a post that create_rib_vertical_post has returned, named by create_rib
FinishedPosts ==
    {n \in 1..Len(bodies) :
        /\ bodies[n].from = "post"
        /\ \E i \in 1..Len(settings.RIB_POST_ROOT_LOCS_CM) :
              bodies[n].name = post_name(bodies[n].station - 1, i - 1)}

\* in every state: gussets exist only on a tall post, and a finished post has
\* its two gussets, top and bottom, exactly when it is tall
C17_Gussets ==
    script = "CreateWingRibs"
      => /\ (\E n \in 1..Len(bodies) : bodies[n].from = "gusset") => PostIsTall
         /\ \A n \in FinishedPosts :
               IF PostIsTall
                 THEN /\ Cardinality(GussetsOf(bodies[n])) = 2
                      /\ {bodies[g].name : g \in GussetsOf(bodies[n])}
                            = {"top_triangle", "bottom_triangle"}
                 ELSE GussetsOf(bodies[n]) = {}

\* in every step: a post that is not tall is returned as it is, without raising
C17_Step ==
    (pc = "post_filled" /\ ~PostIsTall)
      => /\ pc' = "post_loop"
         /\ err' = "none"
         /\ Len(bodies') = Len(bodies)
         /\ bodies'[tx.returned].name = post_name(k - 1, j - 1)

\* C17: create_rib_vertical_post authors and extrudes gussets (exactly two, one
\* at the top and one at the bottom) if and only if the vertical extent of the
\* post strictly exceeds twice the gusset triangle side; otherwise, also when
\* the extent is exactly twice the side, it creates no gusset and returns the
\* post without raising.
C17_GussetsIffTall == []C17_Gussets /\ [][C17_Step]_vars

\* a post 6 high with triangle side 2: finished, with its two gussets
C17_Witness ==
    /\ script = "CreateWingRibs"
    /\ doc.height = 6
    /\ settings.RIB_POST_TRIANGLE_LEN_CM = 2
    /\ pc = "post_loop"
    /\ FinishedPosts # {}
    /\ \A n \in FinishedPosts : Cardinality(GussetsOf(bodies[n])) = 2

\* the spars whose perforations have been cut
FinishedSpars ==
    {n \in 1..Len(bodies) :
        bodies[n].from = "spar" /\ bodies[n].name = ExpectedName(bodies[n].station)}

\* the centres min + spacing, min + 2*spacing, ... whose circle does not reach
\* beyond max
CentresWithin(min, max) ==
    LET spacing == settings.SPAR_CIRCLE_SPACING_CM
        radius == TrueDiv(settings.SPAR_CIRCLE_DIAMETER_CM, 2)
        n == IF max - min - radius >= spacing THEN (max - min - radius) \div spacing ELSE 0
    IN  [i \in 1..n |-> min + i * spacing]

\* C18: for a spar with spanwise extent [min, max] the perforation centres are
\* min + spacing, min + 2*spacing, ... in increasing order, a centre c being
\* placed exactly when c + diameter/2 does not exceed max, and one circle of
\* radius diameter/2 is authored per placed centre.
C18_Perforations ==
    script = "CreateSpars"
      => \A n \in FinishedSpars :
            LET min == doc.span[1]
                max == doc.span[2]
                x_offset == TrueDiv(max - min, 2)
                centres == CentresWithin(min, max)
                holes == bodies[n].holes
            IN  /\ Len(holes) = Len(centres)
                /\ \A i \in 1..Len(holes) :
                      /\ holes[i].centre + x_offset = centres[i]
                      /\ holes[i].radius = TrueDiv(settings.SPAR_CIRCLE_DIAMETER_CM, 2)

\* C19: for every partition issued by the builder (rib, post and spar) the two
\* bounding planes passed to it have identical normals and are a strictly
\* positive distance apart, for every settings value the run accepts.
C19_PlanesApart ==
    tx.p1 # 0
      => /\ planes[tx.p1].normal = planes[tx.p2].normal
         /\ Along(planes[tx.p1].origin, planes[tx.p1].normal)
              # Along(planes[tx.p2].origin, planes[tx.p2].normal)

\* the errors of the two asserts that follow the search for the rib's faces
FaceErrors == {"AssertionError: plane1", "AssertionError: plane2"}

C20_FacesOrFailed ==
    /\ pc = "shell"
         => /\ \E f \in cur.open : f.planar /\ isCoPlanarTo(f, planes[cur.plane1])
            /\ \E f \in cur.open : f.planar /\ isCoPlanarTo(f, planes[cur.plane2])
    /\ err \in FaceErrors
         => /\ pc \in {"handler", "done"}
            /\ bodies[cur.rib].from = "rib"
            /\ bodies[cur.rib].station = k
            /\ bodies[cur.rib].shells = <<>>
            /\ ~BuiltStation(k)
            /\ pc = "done" => result = "returned" /\ out.failed = 1

C20_Step ==
    /\ (err' \in FaceErrors /\ err = "none")
         => pc = "find_faces" /\ pc' = "handler" /\ bodies' = bodies
    /\ err \in FaceErrors
         => err' = err /\ bodies' = bodies /\ k' = k /\ calls' = calls /\ ops' = ops

\* C20: if either of the two faces coplanar with the rib's bounding planes
\* cannot be found on the rib body, create_rib fails before the shell operation
\* is invoked (the rib gets no shell feature) and the run aborts; the shell is
\* invoked only with a face found on each plane.
C20_MissingFaceIsFatal == []C20_FacesOrFailed /\ [][C20_Step]_vars

\* the face on the second plane of rib_2 was not found: rib_2 is there,
\* unshelled, and the run is over
C20_Witness ==
    /\ pc = "done"
    /\ err = "AssertionError: plane2"
    /\ k = 2
    /\ bodies[cur.rib].shells = <<>>
    /\ BuiltStation(1)

\* C21: project_coord normalizes its direction: for every point and every
\* axis-aligned direction of positive length the result is the point's
\* coordinate along that axis, whatever the length.
C21_ProjectNormalizes ==
    (fn.name = "project_coord" /\ pc = "return")
      => \A i \in 1..3 : fn.args[2][i] > 0 => fn.ret = <<fn.args[1][i]>>

\* a partition between two planes is being made, or has just returned or raised
InPartition ==
    /\ tx.p1 # 0
    /\ pc \in {"bf_input", "bf_select", "bf_add", "bf_check", "bf_except",
               "rib_filled", "post_filled", "spar_filled"}

\* coordinate of plane n of the run along its own normal
CoordOfPlane(n) == Along(planes[n].origin, planes[n].normal)

\* C22: the two bounding planes are positioned as declared.  Rib: plane1 at
\* distanceFromRoot from the root plane, plane2 at distanceFromRoot + thickness.
\* Post: planes at location - width/2 and location + width/2.  Spar: planes at
\* +thickness/2 and -thickness/2 from the centre plane through the line.
C22_PlanesAsDeclared ==
    InPartition
      => /\ tx.caller = "rib"
              => /\ planes[tx.p1].normal = SPANWISE_DIRECTION
                 /\ planes[tx.p2].normal = SPANWISE_DIRECTION
                 /\ CoordOfPlane(tx.p1) = Stations[k]
                 /\ CoordOfPlane(tx.p2) = Stations[k] + settings.RIB_THICKNESS_CM
         /\ tx.caller = "post"
              => /\ planes[tx.p1].normal = CHORDWISE_DIRECTION
                 /\ planes[tx.p2].normal = CHORDWISE_DIRECTION
                 /\ 2 * CoordOfPlane(tx.p1) = 2 * cur.locs[j] - settings.RIB_POST_WIDTH_CM
                 /\ 2 * CoordOfPlane(tx.p2) = 2 * cur.locs[j] + settings.RIB_POST_WIDTH_CM
                 /\ CoordOfPlane(tx.p1) + CoordOfPlane(tx.p2) = 2 * cur.locs[j]
                 /\ CoordOfPlane(tx.p2) - CoordOfPlane(tx.p1) = settings.RIB_POST_WIDTH_CM
         /\ tx.caller = "spar"
              => /\ planes[tx.p1].normal = CHORDWISE_DIRECTION
                 /\ planes[tx.p2].normal = CHORDWISE_DIRECTION
                 /\ 2 * CoordOfPlane(tx.p1) = 2 * LineChordwise(k) + settings.SPAR_THICKNESS_CM
                 /\ 2 * CoordOfPlane(tx.p2) = 2 * LineChordwise(k) - settings.SPAR_THICKNESS_CM
                 /\ CoordOfPlane(tx.p1) - CoordOfPlane(tx.p2) = settings.SPAR_THICKNESS_CM

\* the post of the rib at station 2 has been cut between its two planes
C22_Witness ==
    /\ pc = "post_filled"
    /\ tx.caller = "post"
    /\ Stations[k] = 2
    /\ CoordOfPlane(cur.plane1) = 2
    /\ CoordOfPlane(cur.plane2) = 2 + settings.RIB_THICKNESS_CM
    /\ CoordOfPlane(tx.p2) - CoordOfPlane(tx.p1) = settings.RIB_POST_WIDTH_CM

\* the bodies of the extrusions made for the current post
ExtrudedNow ==
    {n \in 1..Len(bodies) :
        /\ bodies[n].from \in {"gusset", "extruded"}
        /\ bodies[n].station = k
        /\ bodies[n].at = cur.locs[j]}

\* the bodies of the i-th extrusion of the current post: the top triangle's
\* bodies come first, the bottom triangle's follow them
BodiesOfExtrusion(i) ==
    LET before == IF i = 1 THEN 0 ELSE cur.extruded[1]
    IN  {n \in ExtrudedNow :
            LET rank == Cardinality({m \in ExtrudedNow : m <= n})
            IN  before < rank /\ rank <= before + cur.extruded[i]}

\* C23: a gusset extrude step that yields other than exactly one resulting body
\* is a fatal error: the run aborts and no body from that extrusion is named or
\* trimmed.
C23_ExtrudeCountFatal ==
    script = "CreateWingRibs"
      => \A i \in 1..Len(cur.extruded) :
            cur.extruded[i] # 1
              => /\ err # "none"
                 /\ pc \in {"handler", "done"}
                 /\ \A n \in BodiesOfExtrusion(i) :
                       /\ ~bodies[n].trimmed
                       /\ bodies[n].name \notin {"top_triangle", "bottom_triangle"}

\* C24: every relative chord position handed to the rib builder for a post
\* lies in [0,1], so that every resolved post location lies within the rib's
\* chordwise extent [start, end], for every declared post position and every
\* wing chord the run accepts.
C24_PostsWithinChord ==
    (script = "CreateWingRibs" /\ pc \notin {"start", "locate_body", "chord"} /\ chord_length > 0)
      => /\ \A i \in 1..Len(rib_vertical_fracs) :
               /\ 0 <= rib_vertical_fracs[i][1]
               /\ rib_vertical_fracs[i][1] <= rib_vertical_fracs[i][2]
         /\ \A i \in 1..Len(cur.locs) :
               /\ RibChord(Stations[k])[1] <= cur.locs[i]
               /\ cur.locs[i] <= RibChord(Stations[k])[2]

\* C25: the target wing body is left unchanged by every builder operation
\* (partitions, gusset trimming, perforation cut): during and after any run,
\* successful or failed, it exists with its original name, is not cut and is
\* not consumed.
C25_WingBodyUnchanged == [](wing = WingBody) /\ [][wing' = wing]_vars

\* a rib run that ended without error, its gussets trimmed against the wing
\* body; the wing body is there
C25_Witness ==
    /\ pc = "done"
    /\ err = "none"
    /\ wing.present
    /\ \E n \in 1..Len(bodies) : bodies[n].from = "gusset" /\ bodies[n].trimmed

\* three cells whose centroids are distinct and colinear along the normal of
\* the planes, the one lying between the other two being the only one between
\* the planes
MiddleOnlyBetween(cells, plane1, plane2) ==
    /\ Len(cells) = 3
    /\ \A a, b \in 1..3 :
          a # b => /\ MidPoint(cells[a].bb) # MidPoint(cells[b].bb)
                   /\ Cross(VecSub(MidPoint(cells[a].bb), MidPoint(cells[b].bb)),
                            plane1.normal) = <<0, 0, 0>>
    /\ \E m \in 1..3 :
          /\ Inside(cells, plane1, plane2) = {m}
          /\ \E a, b \in 1..3 :
                StrictlyBetween(MidPoint(cells[m].bb), MidPoint(cells[a].bb),
                                MidPoint(cells[b].bb))

\* C26: the two selection strategies are interchangeable where both apply: on
\* 3 cells whose centroids are distinct and colinear along the shared plane
\* normal, with exactly the middle centroid between the two planes,
\* cell_in_the_middle and cell_between_planes select the same cell.
C26_SameCell ==
    (/\ pc = "return"
     /\ fn.name \in {"cell_between_planes", "cell_in_the_middle"}
     /\ MiddleOnlyBetween(fn.args[1], fn.args[2], fn.args[3]))
      => /\ err = "none"
         /\ fn.name = "cell_between_planes" => fn.ret = <<cell_in_the_middle(fn.args[1])>>
         /\ fn.name = "cell_in_the_middle"
              => fn.ret = <<cell_between_planes(fn.args[1], fn.args[2], fn.args[3])>>
         /\ Inside(fn.args[1], fn.args[2], fn.args[3]) = {fn.ret[1]}

\* centroids at 3, -1 and 1 along the normal, planes at 0 and 2: the third cell
C26_Witness ==
    /\ pc = "return"
    /\ fn.name = "cell_in_the_middle"
    /\ MiddleOnlyBetween(fn.args[1], fn.args[2], fn.args[3])
    /\ fn.args[2].normal = <<0, 1, 0>>
    /\ [i \in 1..3 |-> Along(MidPoint(fn.args[1][i].bb), <<0, 1, 0>>)] = <<3, 0 - 1, 1>>
    /\ fn.ret = <<3>>

\* the planes of partition attempts that are over: every plane but the two of
\* a partition still being made
ConsumedPlanes ==
    {n \in 1..Len(planes) : pc \in {"handler", "done"} \/ n \notin {tx.p1, tx.p2}}

\* in every step: no plane is deleted or moved
C27_Step ==
    /\ Len(planes') >= Len(planes)
    /\ \A n \in 1..Len(planes) :
          planes'[n].origin = planes[n].origin /\ planes'[n].normal = planes[n].normal

\* C27: construction planes are never deleted and are hidden once consumed: the
\* set of planes only grows during a run, a failed partition leaves its planes
\* in place, and after every partition attempt, successful or failed, both
\* planes used by it are hidden from display.
C27_PlanesHidden ==
    /\ [](\A n \in ConsumedPlanes : ~planes[n].visible)
    /\ [][C27_Step]_vars

\* the post bodies of the current rib, in creation order
PostsNow == SelectSeq(bodies, LAMBDA b : b.from = "post" /\ b.station = k)

\* a post partition is being prepared or made, or its post is being finished
InPost == tx.caller = "post" \/ pc \in {"post_planes", "post_filled", "post_gussets"}

\* in every state inside create_rib, as long as nothing has failed (but for the
\* state between the commit of a partition and the check of the number of
\* bodies it made)
C28_Order ==
    (/\ script = "CreateWingRibs" /\ err = "none" /\ k >= 1
     /\ pc \notin {"rib_loop", "done", "bf_check"})
      => /\ cur.rib = 0 => (~InPost /\ PostsNow = <<>> /\ pc \notin {"find_faces", "shell"})
         /\ cur.rib # 0
              => /\ bodies[cur.rib].from = "rib"
                 /\ bodies[cur.rib].station = k
                 /\ bodies[cur.rib].name = rib_name(k - 1)
                 /\ j <= Len(cur.locs)
                 /\ Len(PostsNow) <= j
                 /\ \A i \in 1..Len(PostsNow) :
                       /\ 2 * PostsNow[i].at = 2 * cur.locs[i] - settings.RIB_POST_WIDTH_CM
                       /\ (i < j \/ ~InPost) => PostsNow[i].name = post_name(k - 1, i - 1)
                 /\ InPost => bodies[cur.rib].shells = <<>> /\ j >= 1 /\ Len(PostsNow) >= j - 1
                 /\ pc \in {"post_loop", "find_faces", "shell"} => Len(PostsNow) = j
                 /\ pc \in {"find_faces", "shell"} => j = Len(cur.locs)
                 /\ bodies[cur.rib].shells = <<>>

\* in every step: a shell is made by the shell step only, which follows the
\* face lookup; a post is begun from the loop only, one position further
C28_Step ==
    /\ (\E n \in 1..Len(bodies) : bodies'[n].shells # bodies[n].shells)
          => pc = "shell" /\ j = Len(cur.locs)
    /\ (pc' = "post_planes" /\ pc # "post_planes")
          => pc = "post_loop" /\ j' = j + 1 /\ bodies[cur.rib].shells = <<>>
    /\ (pc' = "shell" /\ pc # "shell") => pc = "find_faces"
    /\ (pc' = "find_faces" /\ pc # "find_faces") => pc = "post_loop"

C29_ApexesApart ==
    cur.apex # <<>>
      => /\ cur.apex[1] = cur.top - settings.RIB_POST_TRIANGLE_LEN_CM
         /\ cur.apex[2] = cur.bottom + settings.RIB_POST_TRIANGLE_LEN_CM
         /\ cur.apex[1] > cur.apex[2]

\* a post from 0 to 6 with triangle side 2: apexes at 4 and 2
C29_Witness ==
    /\ pc = "post_loop"
    /\ cur.top = 6
    /\ cur.bottom = 0
    /\ cur.apex = <<4, 2>>
    /\ \E n \in 1..Len(bodies) : bodies[n].name = "top_triangle"

\* in every state: the centres placed so far
C30_Placed ==
    (script = "CreateSpars" /\ pc \in {"spar_circles", "spar_cut"})
      => /\ Len(cur.circle_locs) * settings.SPAR_CIRCLE_SPACING_CM
              <= cur.max_spanwise - cur.min_spanwise
         /\ \A i \in 1..Len(cur.circle_locs) :
               /\ cur.circle_locs[i] > cur.min_spanwise
               /\ 2 * cur.circle_locs[i] + settings.SPAR_CIRCLE_DIAMETER_CM
                    < 2 * cur.max_spanwise

\* C30: the perforation placement loop of create_spar_from_line terminates for
\* every spar extent [min, max] and every strictly positive spacing, having
\* placed at most (max - min) / spacing centres, each strictly greater than min
\* and with centre + diameter/2 strictly less than max.
C30_LoopTerminates ==
    /\ []C30_Placed
    /\ (pc = "spar_circles") ~> (pc = "spar_cut")

\* a spar from 0 to 6, spacing 2 and diameter 2: the loop has ended with the
\* centres 2 and 4
C30_Witness ==
    /\ pc = "spar_cut"
    /\ cur.min_spanwise = 0
    /\ cur.max_spanwise = 6
    /\ settings.SPAR_CIRCLE_SPACING_CM = 2
    /\ cur.circle_locs = <<2, 4>>
    /\ cur.loc = 6
=============================================================================
